---------------------------- MODULE Spec2Model ----------------------------
(***************************************************************************)
(* A model of the two programs of the repository:                          *)
(*   one_enum.py          MicrosoftGraphEnumeratorV2, the tenant-wide      *)
(*                        enumerator (orchestrator, two thread pools, the  *)
(*                        user and site jobs, the recursive listing, the   *)
(*                        three CSV files behind csv_lock);                *)
(*   ms_file_explorer.py  SharePointExplorerV8, the interactive explorer   *)
(*                        (URL resolution, drive selection, list_files).   *)
(* The Graph service is the environment: what it holds is the variable     *)
(* tenant, fixed by Init; how it cuts a collection into pages and which     *)
(* requests fail is chosen when the request is answered.                   *)
(***************************************************************************)
EXTENDS Integers, Sequences, FiniteSets, TLC

(* ------------------------------ bounds -------------------------------- *)
\* nodes of a drive's tree in the specifications that range over all trees
MaxNodes == 3
\* largest --depth the specifications range over (the smallest is -1)
MaxD == 1
\* failures (error status, raised exception) the environment injects per run
MaxFaults == 1

(* ------------------------------ state --------------------------------- *)
VARIABLES
  tenant,       \* what the Graph service holds (users, sites, drives, trees)
  max_depth,    \* self.max_depth
  max_workers,  \* self.max_workers
  faults,       \* failures injected so far
  files,        \* the three CSV files: name -> the chunks written (<<>>: no file)
  csv_lock,     \* holder of csv_lock: 0 free, else the job inside the with
  print_lock,   \* holder of print_lock (0 free, -1 the main thread)
  job,          \* job id -> the state of that submitted job
  listed,       \* <<drive, item>> whose children have been requested
  pc_main,      \* where generar_reporte_completo (the main thread) stands
  usuarios,     \* the list listar_todos_los_usuarios builds
  sites,        \* the list listar_todos_los_sites builds
  main_url,     \* url of the paginating loop the main thread is in
  page,         \* page of that loop (lines 74 and 104)
  completed,    \* the counter of the as_completed loop
  exit_status,  \* exit status of the process (-1 while it runs)
  resumen,      \* the record counts the final summary prints
  ex,           \* explorer: position and locals of the running method
  drive_id,     \* explorer: self.drive_id (0: None)
  current_item_id,   \* explorer: self.current_item_id (0: None)
  current_path,      \* explorer: self.current_path, as its list of names
  available_drives,  \* explorer: self.available_drives
  x_log         \* explorer: the requests issued, in order

envVars  == <<tenant, max_depth, max_workers>>
sinkVars == <<files, csv_lock, print_lock>>
mainVars == <<pc_main, usuarios, sites, main_url, page, completed, exit_status, resumen>>
explVars == <<ex, drive_id, current_item_id, current_path, available_drives, x_log>>
vars == <<tenant, max_depth, max_workers, faults, files, csv_lock, print_lock,
          job, listed, pc_main, usuarios, sites, main_url, page, completed,
          exit_status, resumen, ex, drive_id, current_item_id, current_path,
          available_drives, x_log>>

(* ----------------------------- helpers -------------------------------- *)
Last(s) == s[Len(s)]
Front(s) == SubSeq(s, 1, Len(s) - 1)
Range(s) == {s[k] : k \in DOMAIN s}
Ids(n) == [k \in 1..n |-> k]

\* the value Python's None / an absent '@odata.nextLink' has in a url
NoUrl == -1

(* ---------------------------- the service ----------------------------- *)
\* A tree of n nodes 1..n: par[k] is the parent of k (0: the drive's root),
\* fol[k] says whether k carries the 'folder' facet. Only folders have
\* children; the service lists children in increasing id.
Trees(n) ==
  {t \in [par : [1..n -> 0..n], fol : [1..n -> BOOLEAN]] :
     \A k \in 1..n : t.par[k] < k /\ (t.par[k] # 0 => t.fol[t.par[k]])}

AllTrees == UNION {Trees(n) : n \in 0..MaxNodes}

Children(t, p) == SelectSeq(Ids(Len(t.par)), LAMBDA k : t.par[k] = p)

\* The sizes the service may give the page that starts at offset c of coll:
\* at least one item while items remain.
PageSizes(coll, c) ==
  IF c >= Len(coll) THEN {0} ELSE 1..(Len(coll) - c)

\* data.get('value', []) and data.get('@odata.nextLink') of that page
PageValue(coll, c, s) == SubSeq(coll, c + 1, c + s)
\* line 88 (118, 185, 293) with the nextLink of the answer not read
PageNextNotRead(coll, c, s) == NoUrl
PageNext(coll, c, s) == IF c + s < Len(coll) THEN c + s ELSE NoUrl

(* --------------------------- the CSV files ---------------------------- *)
\* A file is the sequence of chunks written to it; a file that was never
\* created holds none (a created one holds at least its header). A row
\* reaches the file in two writes, its head and its tail.
Absent == <<>>
Header(name) == [job |-> 0, part |-> "header", row |-> [cols |-> name]]
Chunk(j, p, r) == [job |-> j, part |-> p, row |-> r]
\* open(name, 'w') in place of the open(name, 'a') of lines 217, 274, 344
TruncateTo(name, c) == [files EXCEPT ![name] = <<c>>]
\* lines 217-219, 274-276, 344-346: open(name, 'a') and one write
AppendTo(name, c) == [files EXCEPT ![name] = Append(@, c)]

\* csv_lock = Lock() (line 19) entered by "with csv_lock" (lines 216, 273,
\* 343): the caller goes on only when no thread holds the lock
csv_lock_ignored == TRUE
csv_lock_free == csv_lock = 0

\* the rows of a file: the rows of its head chunks, in file order
Heads(name) == SelectSeq(files[name], LAMBDA c : c.part = "head")

(* ------------------- listar_archivos_recursivo ------------------------ *)
\* One activation of listar_archivos_recursivo: its arguments and locals.
Frame(d, item, ruta, prof) ==
  [drive_id |-> d, item_id |-> item, ruta |-> ruta, profundidad |-> prof,
   ph |-> "enter", url |-> 0, items |-> <<>>, i |-> 1]

Top(j) == Last(job[j].stack)
SetTop(j, f) == [job[j] EXCEPT !.stack = [@ EXCEPT ![Len(@)] = f]]
\* the activation returns: to its caller's loop, or to the job that called it
Return(j) ==
  LET s == Front(job[j].stack)
  IN  [job[j] EXCEPT !.stack = s, !.pc = IF s = <<>> THEN "print" ELSE "walk",
                     !.msg = IF s = <<>> THEN "procesado" ELSE @]

Walking(j, ph) ==
  /\ job[j].pc = "walk"
  /\ job[j].stack # <<>>
  /\ Top(j).ph = ph

\* the children the service holds for the folder an activation lists
Listing(f) == Children(tenant.tree[f.drive_id], f.item_id)

\* line 167: if profundidad > self.max_depth: return
TooDeep(prof) == prof > max_depth

\* line 222: if 'folder' in item and profundidad < self.max_depth
RecursesTooFar(d, item, prof) ==
  tenant.tree[d].fol[item] /\ prof <= max_depth
Recurses(d, item, prof) ==
  tenant.tree[d].fol[item] /\ prof < max_depth

\* lines 203-214: the row of an item
archivo_row(f, item) ==
  [drive_id |-> f.drive_id, nodo |-> item, ruta |-> Append(f.ruta, item),
   tipo |-> IF tenant.tree[f.drive_id].fol[item] THEN "carpeta" ELSE "archivo",
   profundidad |-> f.profundidad]

\* lines 167-176: the depth check, then the first url
listar_enter(j) ==
  /\ Walking(j, "enter")
  /\ job' = [job EXCEPT ![j] =
       IF TooDeep(Top(j).profundidad) THEN Return(j)
       ELSE SetTop(j, [Top(j) EXCEPT !.ph = "get"])]
  /\ UNCHANGED <<envVars, mainVars, explVars, faults, sinkVars, listed>>

\* lines 179-186: one GET answered 200
listar_get(j) ==
  /\ Walking(j, "get")
  /\ LET f == Top(j)
         coll == Listing(f)
     IN  \E s \in PageSizes(coll, f.url) :
           LET nxt == PageNext(coll, f.url, s)
           IN  job' = [job EXCEPT ![j] = [SetTop(j,
                 [f EXCEPT !.items = @ \o PageValue(coll, f.url, s),
                           !.url = nxt,
                           !.ph = IF nxt = NoUrl THEN "loop" ELSE "get"])
                 EXCEPT !.resp = "ok"]]
  /\ listed' = listed \cup {<<Top(j).drive_id, Top(j).item_id>>}
  /\ UNCHANGED <<envVars, mainVars, explVars, faults, sinkVars>>

\* lines 187-188: one GET answered with another status: break
listar_get_error(j) ==
  /\ Walking(j, "get")
  /\ faults < MaxFaults
  /\ faults' = faults + 1
  /\ job' = [job EXCEPT ![j] =
       [SetTop(j, [Top(j) EXCEPT !.ph = "loop"])
          EXCEPT !.hit = TRUE, !.resp = "error",
                 !.cut = @ \cup {<<Top(j).drive_id, Top(j).item_id>>}]]
  /\ listed' = listed \cup {<<Top(j).drive_id, Top(j).item_id>>}
  /\ UNCHANGED <<envVars, mainVars, explVars, sinkVars>>

\* line 180 raises and nothing catches it below line 289: the job ends
listar_get_raise_ends_job(j) ==
  /\ Walking(j, "get")
  /\ faults < MaxFaults
  /\ faults' = faults + 1
  /\ job' = [job EXCEPT ![j].pc = "done", ![j].stack = <<>>,
                        ![j].hit = TRUE, ![j].resp = "raise",
                        ![j].cut = @ \cup {<<Top(j).drive_id, Top(j).item_id>>}]
  /\ listed' = listed \cup {<<Top(j).drive_id, Top(j).item_id>>}
  /\ UNCHANGED <<envVars, mainVars, explVars, sinkVars>>

\* line 180 raises (timeout, connection): lines 230-231 end the activation
listar_get_raise(j) ==
  /\ Walking(j, "get")
  /\ faults < MaxFaults
  /\ faults' = faults + 1
  /\ job' = [job EXCEPT ![j] =
       [Return(j) EXCEPT !.hit = TRUE, !.resp = "raise",
                         !.cut = @ \cup {<<Top(j).drive_id, Top(j).item_id>>}]]
  /\ listed' = listed \cup {<<Top(j).drive_id, Top(j).item_id>>}
  /\ UNCHANGED <<envVars, mainVars, explVars, sinkVars>>

\* line 191, the loop is over: the activation returns
listar_return(j) ==
  /\ Walking(j, "loop")
  /\ Top(j).i > Len(Top(j).items)
  /\ job' = [job EXCEPT ![j] = Return(j)]
  /\ UNCHANGED <<envVars, mainVars, explVars, faults, sinkVars, listed>>

\* lines 191-216: the next item's row is built, csv_lock is acquired
listar_csv_lock(j) ==
  /\ Walking(j, "loop")
  /\ Top(j).i <= Len(Top(j).items)
  /\ csv_lock_free
  /\ csv_lock' = j
  /\ job' = [job EXCEPT ![j] = SetTop(j, [Top(j) EXCEPT !.ph = "open"])]
  /\ UNCHANGED <<envVars, mainVars, explVars, faults, files, print_lock, listed>>

\* lines 217-219: the file is opened for append, the row starts to reach it
listar_open(j) ==
  /\ Walking(j, "open")
  /\ LET f == Top(j)
     IN  files' = AppendTo("archivos", Chunk(j, "head", archivo_row(f, f.items[f.i])))
  /\ job' = [job EXCEPT ![j] = SetTop(j, [Top(j) EXCEPT !.ph = "tail"])]
  /\ UNCHANGED <<envVars, mainVars, explVars, faults, csv_lock, print_lock, listed>>

\* line 217 raises and csv_lock stays held (an acquire() with no finally)
listar_open_raise_keeps_lock(j) ==
  /\ Walking(j, "open")
  /\ faults < MaxFaults
  /\ faults' = faults + 1
  /\ job' = [job EXCEPT ![j] =
       [SetTop(j, [Top(j) EXCEPT !.ph = "loop", !.i = @ + 1]) EXCEPT !.hit = TRUE]]
  /\ UNCHANGED <<envVars, mainVars, explVars, files, csv_lock, print_lock, listed>>

\* line 217 raises and is caught around the with block alone: lines 222-225
\* still go into the folder
listar_open_raise_recurses(j) ==
  /\ Walking(j, "open")
  /\ faults < MaxFaults
  /\ faults' = faults + 1
  /\ csv_lock' = 0
  /\ LET f == Top(j)
         item == f.items[f.i]
         back == [f EXCEPT !.ph = "loop", !.i = @ + 1]
     IN  job' = [job EXCEPT ![j] =
           [(IF Recurses(f.drive_id, item, f.profundidad)
             THEN [job[j] EXCEPT !.stack =
                     Append([@ EXCEPT ![Len(@)] = back],
                            Frame(f.drive_id, item, Append(f.ruta, item),
                                  f.profundidad + 1))]
             ELSE SetTop(j, back))
              EXCEPT !.hit = TRUE, !.lost = @ + 1]]
  /\ UNCHANGED <<envVars, mainVars, explVars, files, print_lock, listed>>

\* line 217 raises: both with blocks are left, lines 227-228 skip the item
listar_open_raise(j) ==
  /\ Walking(j, "open")
  /\ faults < MaxFaults
  /\ faults' = faults + 1
  /\ csv_lock' = 0
  /\ job' = [job EXCEPT ![j] =
       [SetTop(j, [Top(j) EXCEPT !.ph = "loop", !.i = @ + 1])
          EXCEPT !.hit = TRUE, !.lost = @ + 1]]
  /\ UNCHANGED <<envVars, mainVars, explVars, files, print_lock, listed>>

\* lines 219-225 with the folder put aside until the loop over its siblings
\* is over, instead of the call of line 224
listar_writerow_siblings_first(j) ==
  /\ Walking(j, "tail")
  /\ LET f == Top(j)
         item == f.items[f.i]
         back == [f EXCEPT !.ph = "loop", !.i = @ + 1]
     IN  /\ files' = AppendTo("archivos", Chunk(j, "tail", archivo_row(f, item)))
         /\ job' = [job EXCEPT ![j] =
              IF Recurses(f.drive_id, item, f.profundidad)
              THEN [job[j] EXCEPT !.stack =
                      Append(Append(Front(@),
                                    Frame(f.drive_id, item, Append(f.ruta, item),
                                          f.profundidad + 1)),
                             back)]
              ELSE SetTop(j, back)]
  /\ csv_lock' = 0
  /\ UNCHANGED <<envVars, mainVars, explVars, faults, print_lock, listed>>

\* lines 219-225: the row is complete, the file closed, csv_lock released;
\* then the recursion into a folder above the depth limit
listar_writerow(j) ==
  /\ Walking(j, "tail")
  /\ LET f == Top(j)
         item == f.items[f.i]
         back == [f EXCEPT !.ph = "loop", !.i = @ + 1]
     IN  /\ files' = AppendTo("archivos", Chunk(j, "tail", archivo_row(f, item)))
         /\ job' = [job EXCEPT ![j] =
              IF Recurses(f.drive_id, item, f.profundidad)
              THEN [job[j] EXCEPT !.stack =
                      Append([@ EXCEPT ![Len(@)] = back],
                             Frame(f.drive_id, item, Append(f.ruta, item),
                                   f.profundidad + 1))]
              ELSE SetTop(j, back)]
  /\ csv_lock' = 0
  /\ UNCHANGED <<envVars, mainVars, explVars, faults, print_lock, listed>>

listar_archivos_recursivo(j) ==
  \/ listar_enter(j)
  \/ listar_get(j)
  \/ listar_get_error(j)
  \/ listar_get_raise(j)
  \/ listar_return(j)
  \/ listar_csv_lock(j)
  \/ listar_open(j)
  \/ listar_open_raise(j)
  \/ listar_writerow(j)

(* ---------------- obtener_todos_los_drives_usuario --------------------- *)
DriveIds(drives) == {drives[k].id : k \in DOMAIN drives}

\* lines 150-153 with the test of line 151 made against the personal drive
\* only (what a comparison with the first call's id alone would do)
add_user_drives_first_only(drives, user_drives) ==
  drives \o [k \in DOMAIN SelectSeq(user_drives, LAMBDA d : d \notin DriveIds(drives))
               |-> [id |-> SelectSeq(user_drives, LAMBDA d : d \notin DriveIds(drives))[k],
                    type |-> "shared"]]

\* lines 150-153: each drive of the answer whose id is not yet in drives is
\* appended as 'shared'
RECURSIVE add_user_drives(_, _)
add_user_drives(drives, user_drives) ==
  IF user_drives = <<>> THEN drives
  ELSE add_user_drives(
         IF Head(user_drives) \in DriveIds(drives) THEN drives
         ELSE Append(drives, [id |-> Head(user_drives), type |-> "shared"]),
         Tail(user_drives))

At(j, pc) == job[j].pc = pc

\* lines 135-140: GET /users/{id}/drive answered 200
obtener_drive(j) ==
  /\ At(j, "default")
  /\ tenant.udef[job[j].who] # 0
  /\ job' = [job EXCEPT ![j].pc = "list",
                        ![j].drives = <<[id |-> tenant.udef[job[j].who], type |-> "personal"]>>]
  /\ UNCHANGED <<envVars, mainVars, explVars, faults, sinkVars, listed>>

\* line 137 is false (the user has no default drive, or the request failed)
\* or line 136 raises (lines 141-142)
obtener_drive_fails(j) ==
  /\ At(j, "default")
  /\ \/ tenant.udef[job[j].who] = 0 /\ UNCHANGED faults
     \/ faults < MaxFaults /\ faults' = faults + 1
  /\ job' = [job EXCEPT ![j].pc = "list", ![j].hit = @ \/ faults' # faults]
  /\ UNCHANGED <<envVars, mainVars, explVars, sinkVars, listed>>

\* lines 146-153: GET /users/{id}/drives?$top=200 answered 200; the answer
\* is one page of the user's drives and its nextLink is not read (url keeps
\* the '@odata.nextLink' that the answer carried)
obtener_drives(j) ==
  /\ At(j, "list")
  /\ \E s \in PageSizes(tenant.ulist[job[j].who], 0) :
       job' = [job EXCEPT ![j].pc = "drive", ![j].di = 1,
                 ![j].url = PageNext(tenant.ulist[job[j].who], 0, s),
                 ![j].drives = add_user_drives(@, PageValue(tenant.ulist[job[j].who], 0, s))]
  /\ UNCHANGED <<envVars, mainVars, explVars, faults, sinkVars, listed>>

\* line 148 is false, or line 147 raises (lines 154-155)
obtener_drives_fails(j) ==
  /\ At(j, "list")
  /\ faults < MaxFaults
  /\ faults' = faults + 1
  /\ job' = [job EXCEPT ![j].pc = "drive", ![j].di = 1, ![j].hit = TRUE]
  /\ UNCHANGED <<envVars, mainVars, explVars, sinkVars, listed>>

(* --------- procesar_usuario_paralelo, procesar_site_paralelo ---------- *)
\* lines 259-271 and 329-341: the row of the k-th drive of a job
user_row(jb, k) ==
  [user_id |-> jb.who, drive_id |-> jb.drives[k].id, drive_type |-> jb.drives[k].type]
site_row(jb, k) ==
  [tipo |-> "SITE", site |-> jb.who, drive_id |-> jb.drives[k].id]

row_k(jb, k) == IF jb.kind = "user" THEN user_row(jb, k) ELSE site_row(jb, k)
row_of(j) == row_k(job[j], job[j].di)
file_of(j) == IF job[j].kind = "user" THEN "usuarios" ELSE "sites"

\* lines 301-311: one GET of the site's drives answered 200
site_drives_get(j) ==
  /\ At(j, "sdrives")
  /\ LET coll == tenant.sdrives[job[j].who]
     IN  \E s \in PageSizes(coll, job[j].url) :
           LET nxt == PageNext(coll, job[j].url, s)
           IN  job' = [job EXCEPT
                 ![j].drives = @ \o [k \in 1..s |->
                                  [id |-> PageValue(coll, job[j].url, s)[k], type |-> "site"]],
                 ![j].url = nxt,
                 ![j].resp = "ok",
                 ![j].di = 1,
                 ![j].pc = IF nxt = NoUrl THEN "drive" ELSE "sdrives"]
  /\ UNCHANGED <<envVars, mainVars, explVars, faults, sinkVars, listed>>

\* lines 312-313: another status: break, the drives read so far are processed
site_drives_error(j) ==
  /\ At(j, "sdrives")
  /\ faults < MaxFaults
  /\ faults' = faults + 1
  /\ job' = [job EXCEPT ![j].pc = "drive", ![j].di = 1, ![j].hit = TRUE,
                        ![j].resp = "error"]
  /\ UNCHANGED <<envVars, mainVars, explVars, sinkVars, listed>>

\* line 307 raises: lines 356-357 end the job, no drive is processed
site_drives_raise(j) ==
  /\ At(j, "sdrives")
  /\ faults < MaxFaults
  /\ faults' = faults + 1
  /\ job' = [job EXCEPT ![j].pc = "done", ![j].hit = TRUE, ![j].resp = "raise"]
  /\ UNCHANGED <<envVars, mainVars, explVars, sinkVars, listed>>

\* lines 243-273 / 315-343: the next drive's row is built and csv_lock is
\* acquired
procesar_csv_lock(j) ==
  /\ At(j, "drive")
  /\ job[j].di <= Len(job[j].drives)
  /\ csv_lock_free
  /\ csv_lock' = j
  /\ job' = [job EXCEPT ![j].pc = "open"]
  /\ UNCHANGED <<envVars, mainVars, explVars, faults, files, print_lock, listed>>

\* lines 274-276 / 344-346: the file is opened for append, the row starts
procesar_open(j) ==
  /\ At(j, "open")
  /\ files' = AppendTo(file_of(j), Chunk(j, "head", row_of(j)))
  /\ job' = [job EXCEPT ![j].pc = "tail"]
  /\ UNCHANGED <<envVars, mainVars, explVars, faults, csv_lock, print_lock, listed>>

\* line 274 / 344 raises: the with blocks are left. The user job reports it
\* (lines 283-284), the site job does not (lines 353-354); the drive is not
\* traversed
procesar_open_raise(j) ==
  /\ At(j, "open")
  /\ faults < MaxFaults
  /\ faults' = faults + 1
  /\ csv_lock' = 0
  /\ job' = [job EXCEPT ![j].hit = TRUE,
               ![j].lost = @ + 1,
               ![j].msg = IF job[j].kind = "user" THEN "error" ELSE @,
               ![j].pc = IF job[j].kind = "user" THEN "print" ELSE "drive",
               ![j].di = IF job[j].kind = "user" THEN @ ELSE @ + 1]
  /\ UNCHANGED <<envVars, mainVars, explVars, files, print_lock, listed>>

\* lines 276-281 / 346-351 without the call of line 279 / 349
procesar_writerow_only(j) ==
  /\ At(j, "tail")
  /\ files' = AppendTo(file_of(j), Chunk(j, "tail", row_of(j)))
  /\ csv_lock' = 0
  /\ job' = [job EXCEPT ![j].pc = "print", ![j].msg = "procesado"]
  /\ UNCHANGED <<envVars, mainVars, explVars, faults, print_lock, listed>>

\* lines 276-279 / 346-349 with the call of line 279 / 349 made inside the
\* with csv_lock block
procesar_writerow_in_lock(j) ==
  /\ At(j, "tail")
  /\ files' = AppendTo(file_of(j), Chunk(j, "tail", row_of(j)))
  /\ job' = [job EXCEPT ![j].pc = "walk",
               ![j].stack = <<Frame(job[j].drives[job[j].di].id, 0, <<>>, 0)>>,
               ![j].walks = Append(@, Frame(job[j].drives[job[j].di].id, 0, <<>>, 0))]
  /\ UNCHANGED <<envVars, mainVars, explVars, faults, csv_lock, print_lock, listed>>

\* lines 276-279 / 346-349: the row is complete, csv_lock released, and
\* listar_archivos_recursivo(drive_id, None, "/", 0, archivos_csv) is called
procesar_writerow(j) ==
  /\ At(j, "tail")
  /\ files' = AppendTo(file_of(j), Chunk(j, "tail", row_of(j)))
  /\ csv_lock' = 0
  /\ job' = [job EXCEPT ![j].pc = "walk",
               ![j].stack = <<Frame(job[j].drives[job[j].di].id, 0, <<>>, 0)>>,
               ![j].walks = Append(@, Frame(job[j].drives[job[j].di].id, 0, <<>>, 0))]
  /\ UNCHANGED <<envVars, mainVars, explVars, faults, print_lock, listed>>

\* safe_print, lines 34-35, entered: lines 281, 284, 287, 351
safe_print(j) ==
  /\ At(j, "print")
  /\ print_lock = 0
  /\ print_lock' = j
  /\ job' = [job EXCEPT ![j].pc = "printed",
                        ![j].said = IF job[j].msg = "error" THEN @ + 1 ELSE @]
  /\ UNCHANGED <<envVars, mainVars, explVars, faults, files, csv_lock, listed>>

\* safe_print left with print_lock still held (an acquire() with no release)
safe_print_exit_keeps_lock(j) ==
  /\ At(j, "printed")
  /\ job' = [job EXCEPT ![j].pc = IF job[j].drives = <<>> THEN "done" ELSE "drive",
                        ![j].di = @ + 1]
  /\ UNCHANGED <<envVars, mainVars, explVars, faults, files, csv_lock, print_lock, listed>>

\* safe_print left; the loop over the drives goes on
safe_print_exit(j) ==
  /\ At(j, "printed")
  /\ print_lock' = 0
  /\ job' = [job EXCEPT ![j].pc = IF job[j].drives = <<>> THEN "done" ELSE "drive",
                        ![j].di = @ + 1]
  /\ UNCHANGED <<envVars, mainVars, explVars, faults, files, csv_lock, listed>>

\* lines 286-287: the loop over the drives is over; a user without drives
\* is reported. The job returns and its worker is free.
procesar_end(j) ==
  /\ At(j, "drive")
  /\ job[j].di > Len(job[j].drives)
  /\ job' = [job EXCEPT
       ![j].pc = IF job[j].kind = "user" /\ job[j].drives = <<>> THEN "print" ELSE "done",
       ![j].msg = IF job[j].kind = "user" /\ job[j].drives = <<>> THEN "sin drives" ELSE @]
  /\ UNCHANGED <<envVars, mainVars, explVars, faults, sinkVars, listed>>

(* ----------------------- ThreadPoolExecutor --------------------------- *)
\* A submitted job: its arguments, where it stands, its locals (drives, the
\* index di of the drive in hand, the url of the site's drive listing, the
\* activations of listar_archivos_recursivo), and what happened to it: hit
\* (it met a failure), resp (how the last request of a paginating loop
\* ended), cut (the <<drive, folder>> whose listing failed), lost (appends
\* that raised), msg (the line it passes to safe_print), said (error lines
\* it has printed), walks (its calls of listar_archivos_recursivo from
\* lines 279 and 349, as the activation each one made).
NewJob(kind, who) ==
  [kind |-> kind, who |-> who, pc |-> "pending", drives |-> <<>>, di |-> 1,
   stack |-> <<>>, hit |-> FALSE, url |-> 0, resp |-> "none",
   cut |-> {}, lost |-> 0, msg |-> "none", said |-> 0, walks |-> <<>>]

Running == {j \in DOMAIN job : job[j].pc \notin {"pending", "done"}}

\* a free worker takes the oldest pending job from the queue
worker_takes(j) ==
  /\ At(j, "pending")
  /\ Cardinality(Running) < max_workers
  /\ \A k \in DOMAIN job : k < j => job[k].pc # "pending"
  /\ job' = [job EXCEPT ![j].pc = IF job[j].kind = "user" THEN "default" ELSE "sdrives"]
  /\ UNCHANGED <<envVars, mainVars, explVars, faults, sinkVars, listed>>

(* --------------------- generar_reporte_completo ----------------------- *)
NoFiles == [usuarios |-> Absent, sites |-> Absent, archivos |-> Absent]
HeaderOnly ==
  [usuarios |-> <<Header("usuarios")>>, sites |-> <<Header("sites")>>,
   archivos |-> <<Header("archivos")>>]

\* lines 416 and 427: progress is printed every so many completions
ProgressUsers == 50
ProgressSites == 5

\* lines 370-389: the three files are created, each with its header row
crear_csvs ==
  /\ pc_main = "start"
  /\ files' = HeaderOnly
  /\ pc_main' = "auth"
  /\ UNCHANGED <<envVars, explVars, faults, csv_lock, print_lock, job, listed,
                 usuarios, sites, main_url, page, completed, exit_status, resumen>>

\* lines 393-396, get_access_token (lines 47-54) returns True
get_access_token ==
  /\ pc_main = "auth"
  /\ pc_main' = "usuarios"
  /\ UNCHANGED <<envVars, explVars, faults, sinkVars, job, listed,
                 usuarios, sites, main_url, page, completed, exit_status, resumen>>

\* get_access_token returns False (lines 55-60): line 394 returns, line 463
\* was the last statement of the script, the process ends with status 0
get_access_token_fails ==
  /\ pc_main = "auth"
  /\ faults < MaxFaults
  /\ faults' = faults + 1
  /\ pc_main' = "exit"
  /\ exit_status' = 0
  /\ UNCHANGED <<envVars, explVars, sinkVars, job, listed,
                 usuarios, sites, main_url, page, completed, resumen>>

\* lines 76-88: one GET of the users answered 200
listar_todos_los_usuarios_get ==
  /\ pc_main = "usuarios"
  /\ \E s \in PageSizes(tenant.users, main_url) :
       LET nxt == PageNext(tenant.users, main_url, s)
       IN  /\ usuarios' = usuarios \o PageValue(tenant.users, main_url, s)
           /\ main_url' = IF nxt = NoUrl THEN 0 ELSE nxt
           /\ page' = IF main_url = 0 THEN 1 ELSE page + 1
           /\ pc_main' = IF nxt = NoUrl THEN "sites" ELSE "usuarios"
  /\ UNCHANGED <<envVars, explVars, faults, sinkVars, job, listed,
                 sites, completed, exit_status, resumen>>

\* lines 89-91: another status: break
listar_todos_los_usuarios_error ==
  /\ pc_main = "usuarios"
  /\ faults < MaxFaults
  /\ faults' = faults + 1
  /\ main_url' = 0
  /\ pc_main' = "sites"
  /\ UNCHANGED <<envVars, explVars, sinkVars, job, listed, page,
                 usuarios, sites, completed, exit_status, resumen>>

\* lines 92-94: line 78 raises: break
listar_todos_los_usuarios_raise ==
  /\ pc_main = "usuarios"
  /\ faults < MaxFaults
  /\ faults' = faults + 1
  /\ main_url' = 0
  /\ pc_main' = "sites"
  /\ UNCHANGED <<envVars, explVars, sinkVars, job, listed, page,
                 usuarios, sites, completed, exit_status, resumen>>

\* lines 106-118: one GET of the sites answered 200
listar_todos_los_sites_get ==
  /\ pc_main = "sites"
  /\ \E s \in PageSizes(tenant.sites, main_url) :
       LET nxt == PageNext(tenant.sites, main_url, s)
       IN  /\ sites' = sites \o PageValue(tenant.sites, main_url, s)
           /\ main_url' = IF nxt = NoUrl THEN 0 ELSE nxt
           /\ page' = IF main_url = 0 THEN 1 ELSE page + 1
           /\ pc_main' = IF nxt = NoUrl THEN "submit_users" ELSE "sites"
  /\ UNCHANGED <<envVars, explVars, faults, sinkVars, job, listed,
                 usuarios, completed, exit_status, resumen>>

\* lines 119-121: another status: break
listar_todos_los_sites_error ==
  /\ pc_main = "sites"
  /\ faults < MaxFaults
  /\ faults' = faults + 1
  /\ main_url' = 0
  /\ pc_main' = "submit_users"
  /\ UNCHANGED <<envVars, explVars, sinkVars, job, listed, page,
                 usuarios, sites, completed, exit_status, resumen>>

\* lines 122-124: line 108 raises: break
listar_todos_los_sites_raise ==
  /\ pc_main = "sites"
  /\ faults < MaxFaults
  /\ faults' = faults + 1
  /\ main_url' = 0
  /\ pc_main' = "submit_users"
  /\ UNCHANGED <<envVars, explVars, sinkVars, job, listed, page,
                 usuarios, sites, completed, exit_status, resumen>>

\* lines 410-413: the user pool is created, one job per user is submitted
submit_usuarios ==
  /\ pc_main = "submit_users"
  /\ job' = [k \in 1..Len(usuarios) |-> NewJob("user", usuarios[k])]
  /\ completed' = 0
  /\ pc_main' = "wait_users"
  /\ UNCHANGED <<envVars, explVars, faults, sinkVars, listed,
                 usuarios, sites, main_url, page, exit_status, resumen>>

\* the futures of the pool the main thread is waiting for
Futures ==
  {j \in DOMAIN job : job[j].kind = IF pc_main = "wait_users" THEN "user" ELSE "site"}
Done == {j \in DOMAIN job : job[j].pc = "done"}

\* lines 414-417 / 425-428: as_completed yields one more finished future
as_completed ==
  /\ pc_main \in {"wait_users", "wait_sites"}
  /\ completed < Cardinality(Futures \cap Done)
  /\ completed' = completed + 1
  /\ LET every == IF pc_main = "wait_users" THEN ProgressUsers ELSE ProgressSites
     IN  completed' % every = 0 => print_lock = 0
  /\ UNCHANGED <<envVars, explVars, faults, sinkVars, job, listed, pc_main,
                 usuarios, sites, main_url, page, exit_status, resumen>>

\* the with block of line 410 / 421 left without waiting for the futures
PoolLeftAtOnce == TRUE
\* as_completed has yielded every future, so the with block of line 410 /
\* 421 ends (its shutdown(wait=True) has nothing left to wait for)
PoolDrained == completed = Cardinality(Futures)

\* lines 421-424 made inside the with block of line 410: the site pool is
\* created while jobs of the user pool may still run
submit_sites_early ==
  /\ pc_main = "wait_users"
  /\ job' = job \o [k \in 1..Len(sites) |-> NewJob("site", sites[k])]
  /\ completed' = 0
  /\ pc_main' = "wait_sites"
  /\ UNCHANGED <<envVars, explVars, faults, sinkVars, listed,
                 usuarios, sites, main_url, page, exit_status, resumen>>

\* lines 421-424: the site pool is created, one job per site is submitted
submit_sites ==
  /\ pc_main = "wait_users"
  /\ PoolDrained
  /\ job' = job \o [k \in 1..Len(sites) |-> NewJob("site", sites[k])]
  /\ completed' = 0
  /\ pc_main' = "wait_sites"
  /\ UNCHANGED <<envVars, explVars, faults, sinkVars, listed,
                 usuarios, sites, main_url, page, exit_status, resumen>>

\* the rows a reader of the file counts: len(f.readlines()) - 1
Registros(name) == Len(SelectSeq(files[name], LAMBDA c : c.part = "tail"))

\* lines 431-442: the summary is printed, the script ends
resumen_final ==
  /\ pc_main = "wait_sites"
  /\ PoolDrained
  /\ resumen' = [n \in {"usuarios", "sites", "archivos"} |-> Registros(n)]
  /\ pc_main' = "exit"
  /\ exit_status' = 0
  /\ UNCHANGED <<envVars, explVars, faults, sinkVars, job, listed,
                 usuarios, sites, main_url, page, completed>>

(* ------------------ the explorer: text of a URL ----------------------- *)
\* A text is the sequence of its characters; the eight letters of the word
\* personal are written as the one character "personal".
Marker == <<"/", "personal", "/">>

\* line 109 left out: the URL is taken as it was typed
not_stripped(t) == t

\* str.rstrip('/')
RECURSIVE rstrip(_)
rstrip(t) == IF t # <<>> /\ Last(t) = "/" THEN rstrip(Front(t)) ELSE t

\* sep in t
Contains(t, sep) ==
  \E i \in 1..Len(t) : i + Len(sep) - 1 <= Len(t) /\ SubSeq(t, i, i + Len(sep) - 1) = sep

\* str.split(sep): the occurrences of sep are taken from the left, each
\* after the end of the one before
RECURSIVE split(_, _)
split(t, sep) ==
  IF ~Contains(t, sep) THEN <<t>>
  ELSE LET i == CHOOSE k \in 1..Len(t) :
                  /\ k + Len(sep) - 1 <= Len(t)
                  /\ SubSeq(t, k, k + Len(sep) - 1) = sep
                  /\ \A m \in 1..(k - 1) : SubSeq(t, m, m + Len(sep) - 1) # sep
       IN  <<SubSeq(t, 1, i - 1)>> \o split(SubSeq(t, i + Len(sep), Len(t)), sep)

\* sep.join(parts)
RECURSIVE join(_, _)
join(parts, sep) ==
  IF parts = <<>> THEN <<>>
  ELSE IF Len(parts) = 1 THEN parts[1]
  ELSE parts[1] \o sep \o join(Tail(parts), sep)

\* lines 115-118: the parts of the text after '/personal/'
email_parts(u) == split(Last(split(u, Marker)), <<"_">>)

\* lines 123-127: email = '.'.join(name_parts) + '@' + domain + '.' + tld
email_of(parts) ==
  join(SubSeq(parts, 1, Len(parts) - 2), <<".">>)
    \o <<"@">> \o parts[Len(parts) - 1] \o <<".">> \o parts[Len(parts)]

(* --------------------- the explorer: resolution ----------------------- *)
ExAt(pc) == ex.pc = pc
Logged(r) == x_log' = Append(x_log, r)
enumVars == <<faults, sinkVars, job, listed, mainVars>>

\* lines 107-128: the URL is parsed; a URL without '/personal/' or with
\* fewer than 3 parts returns False, else the email is built
get_drives_from_url ==
  /\ ExAt("url")
  /\ LET u == rstrip(ex.url)
     IN  ex' = IF ~Contains(u, Marker) \/ Len(email_parts(u)) < 3
               THEN [ex EXCEPT !.pc = "done", !.ret = FALSE]
               ELSE [ex EXCEPT !.pc = "users", !.email = email_of(email_parts(u))]
  /\ UNCHANGED <<envVars, enumVars, drive_id, current_item_id, current_path,
                 available_drives, x_log>>

\* lines 132-145: the lookup answers 200 with a user: get_user_drives is
\* called
users_lookup_found ==
  /\ ExAt("users")
  /\ tenant.users # <<>>
  /\ ex' = [ex EXCEPT !.pc = "gud_drive", !.lookup = "found"]
  /\ Logged("users")
  /\ UNCHANGED <<envVars, enumVars, drive_id, current_item_id, current_path,
                 available_drives>>

\* lines 146-147: the lookup answers 200 with no user
users_lookup_empty ==
  /\ ExAt("users")
  /\ tenant.users = <<>>
  /\ ex' = [ex EXCEPT !.pc = "search", !.lookup = "empty"]
  /\ Logged("users")
  /\ UNCHANGED <<envVars, enumVars, drive_id, current_item_id, current_path,
                 available_drives>>

\* line 149 taken as the end of the resolution
users_lookup_403_gives_up ==
  /\ ExAt("users")
  /\ faults < MaxFaults
  /\ faults' = faults + 1
  /\ ex' = [ex EXCEPT !.pc = "done", !.lookup = "403", !.ret = FALSE]
  /\ Logged("users")
  /\ UNCHANGED <<envVars, sinkVars, job, listed, mainVars, drive_id,
                 current_item_id, current_path, available_drives>>

\* lines 149-150: the lookup answers 403
users_lookup_403 ==
  /\ ExAt("users")
  /\ faults < MaxFaults
  /\ faults' = faults + 1
  /\ ex' = [ex EXCEPT !.pc = "search", !.lookup = "403"]
  /\ Logged("users")
  /\ UNCHANGED <<envVars, sinkVars, job, listed, mainVars, drive_id,
                 current_item_id, current_path, available_drives>>

\* the lookup answers another status: neither branch of lines 137-150
users_lookup_error ==
  /\ ExAt("users")
  /\ faults < MaxFaults
  /\ faults' = faults + 1
  /\ ex' = [ex EXCEPT !.pc = "search", !.lookup = "error"]
  /\ Logged("users")
  /\ UNCHANGED <<envVars, sinkVars, job, listed, mainVars, drive_id,
                 current_item_id, current_path, available_drives>>

\* line 133 raises: lines 179-183 return False
users_lookup_raise ==
  /\ ExAt("users")
  /\ faults < MaxFaults
  /\ faults' = faults + 1
  /\ ex' = [ex EXCEPT !.pc = "done", !.lookup = "raise", !.ret = FALSE]
  /\ Logged("users")
  /\ UNCHANGED <<envVars, sinkVars, job, listed, mainVars, drive_id,
                 current_item_id, current_path, available_drives>>

\* lines 187-201: available_drives is emptied, GET /users/{id}/drive
\* answers 200
get_user_drives_drive ==
  /\ ExAt("gud_drive")
  /\ tenant.udef[tenant.users[1]] # 0
  /\ available_drives' = <<[id |-> tenant.udef[tenant.users[1]], type |-> "personal"]>>
  /\ ex' = [ex EXCEPT !.pc = "gud_drives"]
  /\ Logged("drive")
  /\ UNCHANGED <<envVars, enumVars, drive_id, current_item_id, current_path>>

\* line 187, then line 193 is false (no default drive, or the request
\* failed) or line 191 raises (lines 202-203)
get_user_drives_drive_fails ==
  /\ ExAt("gud_drive")
  /\ \/ tenant.udef[tenant.users[1]] = 0 /\ UNCHANGED faults
     \/ faults < MaxFaults /\ faults' = faults + 1
  /\ available_drives' = <<>>
  /\ ex' = [ex EXCEPT !.pc = "gud_drives"]
  /\ Logged("drive")
  /\ UNCHANGED <<envVars, sinkVars, job, listed, mainVars, drive_id,
                 current_item_id, current_path>>

\* lines 211-219: each drive of the answer that no entry of
\* available_drives has the id of is appended as 'shared'
RECURSIVE append_user_drives(_, _)
append_user_drives(avail, user_drives) ==
  IF user_drives = <<>> THEN avail
  ELSE append_user_drives(
         IF \E k \in DOMAIN avail : avail[k].id = Head(user_drives) THEN avail
         ELSE Append(avail, [id |-> Head(user_drives), type |-> "shared"]),
         Tail(user_drives))

\* lines 223-232 with line 226 going on to the search of all sites (line
\* 153) instead of returning False
after_drives_searches(avail) ==
  /\ drive_id' = IF Len(avail) = 1 THEN avail[1].id ELSE drive_id
  /\ ex' = [ex EXCEPT
       !.pc = IF Len(avail) > 1 THEN "select" ELSE IF Len(avail) = 1 THEN "done" ELSE "search",
       !.ret = IF Len(avail) = 1 THEN TRUE ELSE @]

\* lines 223-232 and 167-174: nothing found returns False, one drive is
\* selected, more than one asks select_drive
after_drives(avail) ==
  /\ drive_id' = IF Len(avail) = 1 THEN avail[1].id ELSE drive_id
  /\ ex' = [ex EXCEPT
       !.pc = IF Len(avail) > 1 THEN "select" ELSE "done",
       !.ret = IF Len(avail) = 0 THEN FALSE ELSE IF Len(avail) = 1 THEN TRUE ELSE @]

\* lines 206-232: GET /users/{id}/drives answers 200 (one page, its nextLink
\* is not read)
get_user_drives_drives ==
  /\ ExAt("gud_drives")
  /\ \E s \in PageSizes(tenant.ulist[tenant.users[1]], 0) :
       LET avail == append_user_drives(available_drives,
                      PageValue(tenant.ulist[tenant.users[1]], 0, s))
       IN  available_drives' = avail /\ after_drives(avail)
  /\ Logged("drives")
  /\ UNCHANGED <<envVars, enumVars, current_item_id, current_path>>

\* line 209 is false, or line 207 raises (lines 220-221); lines 223-232
get_user_drives_drives_fails ==
  /\ ExAt("gud_drives")
  /\ faults < MaxFaults
  /\ faults' = faults + 1
  /\ after_drives(available_drives)
  /\ Logged("drives")
  /\ UNCHANGED <<envVars, sinkVars, job, listed, mainVars, current_item_id,
                 current_path, available_drives>>

\* What is typed at the prompt of line 261: nothing, a number, another
\* text, or Ctrl-C.
Choices(n) ==
  {[kind |-> "empty", n |-> 1], [kind |-> "text", n |-> 0], [kind |-> "interrupt", n |-> 0]}
    \cup {[kind |-> "digits", n |-> k] : k \in 0..(n + 1)}

\* line 267: choice.isdigit() and 1 <= int(choice) <= len(available_drives)
Valid(c) == c.kind \in {"empty", "digits"} /\ 1 <= c.n /\ c.n <= Len(available_drives)

\* lines 261-272 with 0 <= int(choice) at line 267: available_drives[-1] is
\* the last drive
select_drive_from_zero ==
  /\ ExAt("select")
  /\ \E c \in Choices(Len(available_drives)) :
       LET ok == c.kind \in {"empty", "digits"} /\ 0 <= c.n /\ c.n <= Len(available_drives)
       IN  /\ drive_id' = IF ok THEN available_drives[IF c.n = 0 THEN Len(available_drives)
                                                      ELSE c.n].id
                          ELSE drive_id
           /\ ex' = [ex EXCEPT !.pc = "done", !.ret = ok, !.choice = c]
  /\ UNCHANGED <<envVars, enumVars, current_item_id, current_path,
                 available_drives, x_log>>

\* lines 261-272
select_drive ==
  /\ ExAt("select")
  /\ \E c \in Choices(Len(available_drives)) :
       /\ drive_id' = IF Valid(c) THEN available_drives[c.n].id ELSE drive_id
       /\ ex' = [ex EXCEPT !.pc = "done", !.ret = Valid(c), !.choice = c]
  /\ UNCHANGED <<envVars, enumVars, current_item_id, current_path,
                 available_drives, x_log>>

\* lines 153-154 and 75-82: the search of the sites answers 200 (one page)
search_sites ==
  /\ ExAt("search")
  /\ \E s \in PageSizes(tenant.sites, 0) :
       ex' = [ex EXCEPT !.pc = "site", !.sites = PageValue(tenant.sites, 0, s),
                        !.si = 1, !.drives = <<>>]
  /\ Logged("search")
  /\ UNCHANGED <<envVars, enumVars, drive_id, current_item_id, current_path,
                 available_drives>>

\* line 80 is false, or line 76 raises (lines 99-100): no site is visited
search_sites_fails ==
  /\ ExAt("search")
  /\ faults < MaxFaults
  /\ faults' = faults + 1
  /\ ex' = [ex EXCEPT !.pc = "site", !.sites = <<>>, !.si = 1, !.drives = <<>>]
  /\ Logged("search")
  /\ UNCHANGED <<envVars, sinkVars, job, listed, mainVars, drive_id,
                 current_item_id, current_path, available_drives>>

\* lines 84-95: the drives of the next site are asked for and answer 200
\* (one page); they are all kept
search_site_drives ==
  /\ ExAt("site")
  /\ ex.si <= Len(ex.sites)
  /\ \E s \in PageSizes(tenant.sdrives[ex.sites[ex.si]], 0) :
       ex' = [ex EXCEPT !.si = @ + 1,
                !.drives = @ \o PageValue(tenant.sdrives[ex.sites[ex.si]], 0, s)]
  /\ Logged("site_drives")
  /\ UNCHANGED <<envVars, enumVars, drive_id, current_item_id, current_path,
                 available_drives>>

\* line 92 is false, or line 90 raises (lines 96-97): the site is skipped
search_site_drives_fails ==
  /\ ExAt("site")
  /\ ex.si <= Len(ex.sites)
  /\ faults < MaxFaults
  /\ faults' = faults + 1
  /\ ex' = [ex EXCEPT !.si = @ + 1]
  /\ Logged("site_drives")
  /\ UNCHANGED <<envVars, sinkVars, job, listed, mainVars, drive_id,
                 current_item_id, current_path, available_drives>>

\* lines 156-165: every drive found is stored as 'huerfano'
huerfanos(drives) == [k \in DOMAIN drives |-> [id |-> drives[k], type |-> "huerfano"]]

\* lines 102 and 156-177: search_all_drives_by_email returns; drives found
\* replace available_drives, none found returns False
search_returns ==
  /\ ExAt("site")
  /\ ex.si > Len(ex.sites)
  /\ IF ex.drives # <<>>
     THEN available_drives' = huerfanos(ex.drives) /\ after_drives(huerfanos(ex.drives))
     ELSE /\ UNCHANGED <<available_drives, drive_id>>
          /\ ex' = [ex EXCEPT !.pc = "done", !.ret = FALSE]
  /\ UNCHANGED <<envVars, enumVars, current_item_id, current_path, x_log>>

(* ----------------------- the explorer: list_files --------------------- *)
\* lines 277-278: no drive is selected: [] is returned, nothing is asked
list_files_no_drive ==
  /\ ExAt("list_files")
  /\ drive_id = 0
  /\ ex' = [ex EXCEPT !.pc = "listed", !.items = <<>>]
  /\ UNCHANGED <<envVars, enumVars, drive_id, current_item_id, current_path,
                 available_drives, x_log>>

\* lines 289-295: one GET of the children answered 200
list_files_get ==
  /\ ExAt("list_files")
  /\ drive_id # 0
  /\ LET coll == Children(tenant.tree[drive_id], ex.item)
     IN  \E s \in PageSizes(coll, ex.cur) :
           LET nxt == PageNext(coll, ex.cur, s)
           IN  ex' = [ex EXCEPT !.items = @ \o PageValue(coll, ex.cur, s),
                                !.cur = nxt, !.resp = "ok",
                                !.pc = IF nxt = NoUrl THEN "listed" ELSE "list_files"]
  /\ Logged("children")
  /\ UNCHANGED <<envVars, enumVars, drive_id, current_item_id, current_path,
                 available_drives>>

\* lines 296-299 with the items read so far given up, as lines 301-303 do
list_files_error_returns_nothing ==
  /\ ExAt("list_files")
  /\ drive_id # 0
  /\ faults < MaxFaults
  /\ faults' = faults + 1
  /\ ex' = [ex EXCEPT !.pc = "listed", !.resp = "error", !.items = <<>>]
  /\ Logged("children")
  /\ UNCHANGED <<envVars, sinkVars, job, listed, mainVars, drive_id,
                 current_item_id, current_path, available_drives>>

\* lines 296-299: another status: break, the items read so far are returned
list_files_error ==
  /\ ExAt("list_files")
  /\ drive_id # 0
  /\ faults < MaxFaults
  /\ faults' = faults + 1
  /\ ex' = [ex EXCEPT !.pc = "listed", !.resp = "error"]
  /\ Logged("children")
  /\ UNCHANGED <<envVars, sinkVars, job, listed, mainVars, drive_id,
                 current_item_id, current_path, available_drives>>

\* line 290 raises: lines 301-303 return []
list_files_raise ==
  /\ ExAt("list_files")
  /\ drive_id # 0
  /\ faults < MaxFaults
  /\ faults' = faults + 1
  /\ ex' = [ex EXCEPT !.pc = "listed", !.items = <<>>]
  /\ Logged("children")
  /\ UNCHANGED <<envVars, sinkVars, job, listed, mainVars, drive_id,
                 current_item_id, current_path, available_drives>>

(* ----------------------- the explorer: commands --------------------- *)
\* An item is named by its id; current_path is the sequence of the names
\* after the leading '/', so '/' is <<>>. ex.cmd is the command read last,
\* ex.count the commands read so far.
MaxCmds == 4

\* lines 476-487: a line is read at the prompt and parsed
Reads == ExAt("prompt") /\ ex.count < MaxCmds

\* the command returns to the prompt
Stays(kind, arg) == ex' = [ex EXCEPT !.cmd = [kind |-> kind, arg |-> arg], !.count = @ + 1]

\* the command calls self.list_files(self.current_item_id)
Lists_current(kind, arg) ==
  ex' = [ex EXCEPT !.cmd = [kind |-> kind, arg |-> arg], !.count = @ + 1,
                   !.pc = "list_files", !.item = current_item_id,
                   !.cur = 0, !.items = <<>>]

\* lines 353-363: cd .. drops the last name of current_path, unless it is
\* '/', and sets current_item_id to None
cmd_cd_up ==
  /\ Reads
  /\ Stays("cd_up", 0)
  /\ IF drive_id # 0 /\ current_path # <<>>
     THEN current_path' = Front(current_path) /\ current_item_id' = 0
     ELSE UNCHANGED <<current_path, current_item_id>>
  /\ UNCHANGED <<envVars, enumVars, drive_id, available_drives, x_log>>

\* lines 365-368: cd /
cmd_cd_root ==
  /\ Reads
  /\ Stays("cd_root", 0)
  /\ IF drive_id # 0
     THEN current_path' = <<>> /\ current_item_id' = 0
     ELSE UNCHANGED <<current_path, current_item_id>>
  /\ UNCHANGED <<envVars, enumVars, drive_id, available_drives, x_log>>

\* lines 349-350 and 370 (cd), 315-319 (dir), 387-390 (download): without a
\* drive the command returns, else it lists the current folder
cmd_lists ==
  /\ \E kind \in {"cd", "dir", "download"} :
       \E arg \in IF kind = "dir" THEN {0} ELSE 1..(MaxNodes + 1) :
         /\ Reads
         /\ IF drive_id = 0 THEN Stays(kind, arg) ELSE Lists_current(kind, arg)
  /\ UNCHANGED <<envVars, enumVars, drive_id, current_item_id, current_path,
                 available_drives, x_log>>

\* lines 306-311: the item of that name among items, if any
get_item_by_name(name, items) == {items[k] : k \in {l \in DOMAIN items : items[l] = name}}

\* lines 371-383 with line 377 left out: cd goes into a file as into a folder
cmd_cd_item_any ==
  /\ ExAt("listed")
  /\ ex.cmd.kind = "cd"
  /\ IF get_item_by_name(ex.cmd.arg, ex.items) # {}
     THEN /\ current_item_id' = ex.cmd.arg
          /\ current_path' = Append(current_path, ex.cmd.arg)
     ELSE UNCHANGED <<current_item_id, current_path>>
  /\ ex' = [ex EXCEPT !.pc = "prompt"]
  /\ UNCHANGED <<envVars, enumVars, drive_id, available_drives, x_log>>

\* lines 371-383: the name is looked for in the listing; a folder of that
\* name becomes the current folder, its name is added to current_path
cmd_cd_item ==
  /\ ExAt("listed")
  /\ ex.cmd.kind = "cd"
  /\ IF /\ get_item_by_name(ex.cmd.arg, ex.items) # {}
        /\ tenant.tree[drive_id].fol[ex.cmd.arg]
     THEN /\ current_item_id' = ex.cmd.arg
          /\ current_path' = Append(current_path, ex.cmd.arg)
     ELSE UNCHANGED <<current_item_id, current_path>>
  /\ ex' = [ex EXCEPT !.pc = "prompt"]
  /\ UNCHANGED <<envVars, enumVars, drive_id, available_drives, x_log>>

\* lines 321-345 and 391-427: the listing is printed, the file downloaded or
\* not; no attribute of the explorer is assigned
cmd_listed ==
  /\ ExAt("listed")
  /\ ex.cmd.kind \in {"dir", "download"}
  /\ ex' = [ex EXCEPT !.pc = "prompt"]
  /\ UNCHANGED <<envVars, enumVars, drive_id, current_item_id, current_path,
                 available_drives, x_log>>

\* lines 429-446: pwd and help print
cmd_pwd ==
  /\ \E kind \in {"pwd", "help"} : Reads /\ Stays(kind, 0)
  /\ UNCHANGED <<envVars, enumVars, drive_id, current_item_id, current_path,
                 available_drives, x_log>>

(* ------------------------- the specifications ------------------------- *)
\* the main thread at pc, having read the users us and the sites ss
MainAt(pc, us, ss) ==
  /\ pc_main = pc
  /\ usuarios = us
  /\ sites = ss
  /\ main_url = 0
  /\ page = 0
  /\ completed = 0
  /\ exit_status = -1
  /\ resumen = <<>>

\* the explorer is not running
NoEx == [pc |-> "idle", url |-> <<>>, email |-> <<>>, lookup |-> "none",
         sites |-> <<>>, si |-> 1, drives |-> <<>>, ret |-> "none",
         item |-> 0, cur |-> 0, items |-> <<>>, resp |-> "none",
         choice |-> [kind |-> "none", n |-> 0],
         cmd |-> [kind |-> "none", arg |-> 0], count |-> 0]
ExplorerIdle ==
  /\ ex = NoEx
  /\ drive_id = 0
  /\ current_item_id = 0
  /\ current_path = <<>>
  /\ available_drives = <<>>
  /\ x_log = <<>>

(* Spec: a whole run of one_enum.py, over small tenants. *)
MaxUsers == 2
MaxSites == 1
MaxWorkers == 2
\* nodes of each drive's tree in a whole run
JobNodes == 2

\* A user has no drive at all, or one personal drive that its drive list
\* repeats.
UserKinds == {"none", "one"}

\* user u's drive is u, site s's drive follows the users' drives; every
\* drive holds the tree t
Tenant(kinds, ns, t) ==
  [users |-> Ids(Len(kinds)), sites |-> Ids(ns),
   udef |-> [u \in DOMAIN kinds |-> IF kinds[u] = "none" THEN 0 ELSE u],
   ulist |-> [u \in DOMAIN kinds |-> IF kinds[u] = "none" THEN <<>> ELSE <<u>>],
   sdrives |-> [x \in 1..ns |-> <<Len(kinds) + x>>],
   tree |-> [d \in 1..(Len(kinds) + ns) |-> t]]

Tenants ==
  {Tenant(kinds, ns, t) :
     kinds \in UNION {[1..n -> UserKinds] : n \in 0..MaxUsers},
     ns \in 0..MaxSites, t \in Trees(JobNodes)}

Init ==
  /\ tenant \in Tenants
  /\ max_depth \in 0..MaxD
  /\ max_workers \in 1..MaxWorkers
  /\ faults = 0
  /\ files = NoFiles
  /\ csv_lock = 0
  /\ print_lock = 0
  /\ job = <<>>
  /\ listed = {}
  /\ MainAt("start", <<>>, <<>>)
  /\ ExplorerIdle

Next ==
  \/ crear_csvs
  \/ get_access_token
  \/ get_access_token_fails
  \/ listar_todos_los_usuarios_get
  \/ listar_todos_los_usuarios_error
  \/ listar_todos_los_usuarios_raise
  \/ listar_todos_los_sites_get
  \/ listar_todos_los_sites_error
  \/ listar_todos_los_sites_raise
  \/ submit_usuarios
  \/ as_completed
  \/ submit_sites
  \/ resumen_final
  \/ \E j \in DOMAIN job : worker_takes(j)
  \/ \E j \in DOMAIN job : obtener_drive(j)
  \/ \E j \in DOMAIN job : obtener_drive_fails(j)
  \/ \E j \in DOMAIN job : obtener_drives(j)
  \/ \E j \in DOMAIN job : obtener_drives_fails(j)
  \/ \E j \in DOMAIN job : site_drives_get(j)
  \/ \E j \in DOMAIN job : site_drives_error(j)
  \/ \E j \in DOMAIN job : site_drives_raise(j)
  \/ \E j \in DOMAIN job : procesar_csv_lock(j)
  \/ \E j \in DOMAIN job : procesar_open(j)
  \/ \E j \in DOMAIN job : procesar_open_raise(j)
  \/ \E j \in DOMAIN job : procesar_writerow(j)
  \/ \E j \in DOMAIN job : procesar_end(j)
  \/ \E j \in DOMAIN job : safe_print(j)
  \/ \E j \in DOMAIN job : safe_print_exit(j)
  \/ \E j \in DOMAIN job : listar_enter(j)
  \/ \E j \in DOMAIN job : listar_get(j)
  \/ \E j \in DOMAIN job : listar_get_error(j)
  \/ \E j \in DOMAIN job : listar_get_raise(j)
  \/ \E j \in DOMAIN job : listar_return(j)
  \/ \E j \in DOMAIN job : listar_csv_lock(j)
  \/ \E j \in DOMAIN job : listar_open(j)
  \/ \E j \in DOMAIN job : listar_open_raise(j)
  \/ \E j \in DOMAIN job : listar_writerow(j)

Spec == Init /\ [][Next]_vars

\* A run with the deepest traversal and the widest pool the bounds allow,
\* and the threads scheduled fairly: a step of the program that stays
\* possible is taken. Every request of the model is one step, so every call
\* returns; every collection is finite, so every pagination ends.
InitFair ==
  /\ tenant \in Tenants
  /\ max_depth = MaxD
  /\ max_workers = MaxWorkers
  /\ faults = 0
  /\ files = NoFiles
  /\ csv_lock = 0
  /\ print_lock = 0
  /\ job = <<>>
  /\ listed = {}
  /\ MainAt("start", <<>>, <<>>)
  /\ ExplorerIdle

SpecFair == InitFair /\ [][Next]_vars /\ WF_vars(Next)

\* A job of the user pool that has written the row of its drive 1 and calls
\* listar_archivos_recursivo(drive_id, None, "/", 0, archivos_csv).
WalkingJob(kind, who, drives, di) ==
  [kind |-> kind, who |-> who, pc |-> "walk", drives |-> drives, di |-> di,
   stack |-> <<Frame(drives[di].id, 0, <<>>, 0)>>, hit |-> FALSE, url |-> 0,
   resp |-> "none", cut |-> {}, lost |-> 0, msg |-> "none", said |-> 0,
   walks |-> <<Frame(drives[di].id, 0, <<>>, 0)>>]

\* SpecTraverse: one call of listar_archivos_recursivo from the root of a
\* drive, over every tree of at most MaxNodes nodes and every --depth.
InitTraverse ==
  /\ \E t \in AllTrees :
       tenant = [users |-> <<1>>, sites |-> <<>>, udef |-> <<1>>,
                 ulist |-> <<<<>>>>, sdrives |-> <<>>, tree |-> <<t>>]
  /\ max_depth \in -1..MaxD
  /\ max_workers = 1
  /\ faults = 0
  /\ files = HeaderOnly
  /\ csv_lock = 0
  /\ print_lock = 0
  /\ job = <<WalkingJob("user", 1, <<[id |-> 1, type |-> "personal"]>>, 1)>>
  /\ listed = {}
  /\ MainAt("wait_users", <<1>>, <<>>)
  /\ ExplorerIdle

NextTraverse ==
  \/ \E j \in DOMAIN job : listar_enter(j)
  \/ \E j \in DOMAIN job : listar_get(j)
  \/ \E j \in DOMAIN job : listar_get_error(j)
  \/ \E j \in DOMAIN job : listar_get_raise(j)
  \/ \E j \in DOMAIN job : listar_return(j)
  \/ \E j \in DOMAIN job : listar_csv_lock(j)
  \/ \E j \in DOMAIN job : listar_open(j)
  \/ \E j \in DOMAIN job : listar_open_raise(j)
  \/ \E j \in DOMAIN job : listar_writerow(j)

SpecTraverse == InitTraverse /\ [][NextTraverse]_vars

\* the enumerator is not running
EnumeratorOff ==
  /\ max_depth = 0
  /\ max_workers = 1
  /\ files = NoFiles
  /\ csv_lock = 0
  /\ print_lock = 0
  /\ job = <<>>
  /\ listed = {}
  /\ MainAt("off", <<>>, <<>>)

(* SpecPages: each of the four paginating loops, over collections of up to
   MaxItems items that the service cuts into pages as it likes. *)
MaxItems == 4

PagesTenant(nu, ns, t) ==
  [users |-> Ids(nu), sites |-> Ids(ns), udef |-> [u \in 1..nu |-> 0],
   ulist |-> [u \in 1..nu |-> <<>>], sdrives |-> [x \in 1..ns |-> <<>>],
   tree |-> <<t>>]

Folders(t) == {0} \cup {k \in DOMAIN t.par : t.fol[k]}

InitPages ==
  /\ faults = 0
  /\ \/ \* listar_todos_los_usuarios, then listar_todos_los_sites
        /\ \E nu \in 0..MaxItems, ns \in 0..MaxItems :
             tenant = PagesTenant(nu, ns, [par |-> <<>>, fol |-> <<>>])
        /\ max_depth = 0
        /\ max_workers = 1
        /\ files = HeaderOnly
        /\ csv_lock = 0
        /\ print_lock = 0
        /\ job = <<>>
        /\ listed = {}
        /\ MainAt("usuarios", <<>>, <<>>)
        /\ ExplorerIdle
     \/ \* the loop of listar_archivos_recursivo, at the root of a drive
        /\ \E n \in 0..MaxItems : \E t \in Trees(n) : tenant = PagesTenant(1, 0, t)
        /\ max_depth = 0
        /\ max_workers = 1
        /\ files = HeaderOnly
        /\ csv_lock = 0
        /\ print_lock = 0
        /\ job = <<WalkingJob("user", 1, <<[id |-> 1, type |-> "personal"]>>, 1)>>
        /\ listed = {}
        /\ MainAt("wait_users", <<1>>, <<>>)
        /\ ExplorerIdle
     \/ \* list_files of the explorer, on the root or a folder of a drive
        /\ \E n \in 0..MaxItems : \E t \in Trees(n) :
             /\ tenant = PagesTenant(1, 0, t)
             /\ \E f \in Folders(t) : ex = [NoEx EXCEPT !.pc = "list_files", !.item = f]
        /\ EnumeratorOff
        /\ drive_id \in 0..1
        /\ current_item_id = 0
        /\ current_path = <<>>
        /\ available_drives = <<>>
        /\ x_log = <<>>

NextPages ==
  \/ listar_todos_los_usuarios_get
  \/ listar_todos_los_usuarios_error
  \/ listar_todos_los_usuarios_raise
  \/ listar_todos_los_sites_get
  \/ listar_todos_los_sites_error
  \/ listar_todos_los_sites_raise
  \/ \E j \in DOMAIN job : listar_enter(j)
  \/ \E j \in DOMAIN job : listar_get(j)
  \/ \E j \in DOMAIN job : listar_get_error(j)
  \/ \E j \in DOMAIN job : listar_get_raise(j)
  \/ list_files_no_drive
  \/ list_files_get
  \/ list_files_error
  \/ list_files_raise

SpecPages == InitPages /\ [][NextPages]_vars

(* SpecResolve: the drives of one user, as obtener_todos_los_drives_usuario
   and get_user_drives collect them, over every default drive and every
   drive list of up to MaxList entries with ids up to MaxIds. *)
MaxIds == 2
MaxList == 3

Lists(n) == UNION {[1..k -> 1..MaxIds] : k \in 0..n}

UserTenant(d, l) ==
  [users |-> <<1>>, sites |-> <<>>, udef |-> <<d>>, ulist |-> <<l>>,
   sdrives |-> <<>>, tree |-> <<>>]

InitResolve ==
  /\ \E d \in 0..MaxIds, l \in Lists(MaxList) : tenant = UserTenant(d, l)
  /\ faults = 0
  /\ \/ \* a job of the user pool calls obtener_todos_los_drives_usuario
        /\ max_depth = 0
        /\ max_workers = 1
        /\ files = HeaderOnly
        /\ csv_lock = 0
        /\ print_lock = 0
        /\ job = <<[NewJob("user", 1) EXCEPT !.pc = "default"]>>
        /\ listed = {}
        /\ MainAt("wait_users", <<1>>, <<>>)
        /\ ExplorerIdle
     \/ \* the explorer calls get_user_drives
        /\ EnumeratorOff
        /\ ex = [NoEx EXCEPT !.pc = "gud_drive", !.lookup = "found"]
        /\ drive_id = 0
        /\ current_item_id = 0
        /\ current_path = <<>>
        /\ available_drives = <<>>
        /\ x_log = <<>>

NextResolve ==
  \/ \E j \in DOMAIN job : obtener_drive(j)
  \/ \E j \in DOMAIN job : obtener_drive_fails(j)
  \/ \E j \in DOMAIN job : obtener_drives(j)
  \/ \E j \in DOMAIN job : obtener_drives_fails(j)
  \/ get_user_drives_drive
  \/ get_user_drives_drive_fails
  \/ get_user_drives_drives
  \/ get_user_drives_drives_fails
  \/ select_drive

SpecResolve == InitResolve /\ [][NextResolve]_vars

(* SpecExplorer: one call of get_drives_from_url, over tenants where the
   email is a user's or no user's and up to SearchSites sites answer the
   search, each with up to MaxSiteDrives drives. *)
SearchSites == 2
MaxSiteDrives == 2

SearchTenant(counts) ==
  [users |-> <<>>, sites |-> Ids(Len(counts)), udef |-> <<>>, ulist |-> <<>>,
   sdrives |-> [x \in DOMAIN counts |->
                  [k \in 1..counts[x] |-> x * (MaxSiteDrives + 1) + k]],
   tree |-> <<>>]

ExplorerTenants ==
  {UserTenant(d, l) : d \in 0..MaxIds, l \in Lists(MaxList)}
    \cup {SearchTenant(counts) :
            counts \in UNION {[1..n -> 0..MaxSiteDrives] : n \in 0..SearchSites}}

Personal(tail) == <<"h">> \o Marker \o tail

ExplorerUrls ==
  {Personal(<<"a", "_", "b", "_", "c">>), Personal(<<"a", "_", "b", "_", "c", "/">>),
   Personal(<<"a", "_", "b">>), <<"h", "/", "a">>}

InitExplorer ==
  /\ tenant \in ExplorerTenants
  /\ faults = 0
  /\ EnumeratorOff
  /\ \E u \in ExplorerUrls : ex = [NoEx EXCEPT !.pc = "url", !.url = u]
  /\ drive_id = 0
  /\ current_item_id = 0
  /\ current_path = <<>>
  /\ available_drives = <<>>
  /\ x_log = <<>>

NextExplorer ==
  \/ get_drives_from_url
  \/ users_lookup_found
  \/ users_lookup_empty
  \/ users_lookup_403
  \/ users_lookup_error
  \/ users_lookup_raise
  \/ get_user_drives_drive
  \/ get_user_drives_drive_fails
  \/ get_user_drives_drives
  \/ get_user_drives_drives_fails
  \/ select_drive
  \/ search_sites
  \/ search_sites_fails
  \/ search_site_drives
  \/ search_site_drives_fails
  \/ search_returns

SpecExplorer == InitExplorer /\ [][NextExplorer]_vars

(* SpecUrl: the parsing of get_drives_from_url, over every URL made of one
   of the heads below and a tail of up to MaxTail characters. *)
MaxTail == 7

Texts(n) == UNION {[1..k -> {"/", "_", "a"}] : k \in 0..n}

UrlHeads ==
  {<<>>, <<"h">>, Marker, <<"h">> \o Marker, <<"h", "/", "personal">>,
   <<"h">> \o Marker \o <<"personal", "/">>,
   <<"h">> \o Marker \o <<"a">> \o Marker}

InitUrl ==
  /\ tenant \in {UserTenant(1, <<>>), SearchTenant(<<>>)}
  /\ faults = 0
  /\ EnumeratorOff
  /\ \E h \in UrlHeads, t \in Texts(MaxTail) :
       ex = [NoEx EXCEPT !.pc = "url", !.url = h \o t]
  /\ drive_id = 0
  /\ current_item_id = 0
  /\ current_path = <<>>
  /\ available_drives = <<>>
  /\ x_log = <<>>

NextUrl ==
  \/ get_drives_from_url
  \/ users_lookup_found
  \/ users_lookup_empty

SpecUrl == InitUrl /\ [][NextUrl]_vars

(* ------------------------------ claims -------------------------------- *)
(* ---------------- what a job writes when nothing fails ---------------- *)
\* the rows one activation of listar_archivos_recursivo appends, in order,
\* for the children items of the folder at ruta, when every request and
\* every append succeeds
RECURSIVE WalkRows(_, _, _, _)
WalkRows(d, items, ruta, prof) ==
  IF items = <<>> THEN <<>>
  ELSE LET c == Head(items)
           row == [drive_id |-> d, nodo |-> c, ruta |-> Append(ruta, c),
                   tipo |-> IF tenant.tree[d].fol[c] THEN "carpeta" ELSE "archivo",
                   profundidad |-> prof]
           below == IF tenant.tree[d].fol[c] /\ prof < max_depth
                    THEN WalkRows(d, Children(tenant.tree[d], c), Append(ruta, c), prof + 1)
                    ELSE <<>>
       IN  <<row>> \o below \o WalkRows(d, Tail(items), ruta, prof)

DriveRows(d) ==
  IF 0 > max_depth THEN <<>> ELSE WalkRows(d, Children(tenant.tree[d], 0), <<>>, 0)

RECURSIVE DrivesRows(_)
DrivesRows(drives) ==
  IF drives = <<>> THEN <<>> ELSE DriveRows(Head(drives).id) \o DrivesRows(Tail(drives))

\* the rows job j has put into a file, in file order
RowsOf(name, j) ==
  LET mine == SelectSeq(files[name], LAMBDA c : c.part = "head" /\ c.job = j)
  IN  [k \in DOMAIN mine |-> mine[k].row]

\* job j is between "with csv_lock:" and the end of that block
InCsv(j) ==
  \/ job[j].pc \in {"open", "tail"}
  \/ job[j].pc = "walk" /\ job[j].stack # <<>> /\ Top(j).ph \in {"open", "tail"}

\* a file is its header, then whole rows: every head is followed at once by
\* the tail of the same row of the same job; only the last chunk may be a
\* head whose tail its writer, still inside csv_lock, has yet to write
WellFormed(name) ==
  LET f == files[name]
  IN  f # Absent =>
        /\ f[1] = Header(name)
        /\ \A k \in 2..Len(f) :
             /\ f[k].part \in {"head", "tail"}
             /\ f[k].part = "tail" =>
                  f[k - 1] = [f[k] EXCEPT !.part = "head"]
             /\ f[k].part = "head" =>
                  IF k < Len(f) THEN f[k + 1] = [f[k] EXCEPT !.part = "tail"]
                  ELSE InCsv(f[k].job)

RECURSIVE Sum(_, _)
Sum(f, S) ==
  IF S = {} THEN 0 ELSE LET x == CHOOSE y \in S : TRUE IN f[x] + Sum(f, S \ {x})

Finished == pc_main = "exit" /\ resumen # <<>>

\* C3: at most one job is inside an open-append-close section at any time;
\* no row of any file is truncated or interleaved with another; and when the
\* N jobs of a run have all finished without a failure, the file stream holds
\* exactly the rows each job had to append (N x M for M rows per job).
C3_ConcurrentWriters ==
  /\ Cardinality({j \in DOMAIN job : InCsv(j)}) <= 1
  /\ \A name \in {"usuarios", "sites", "archivos"} : WellFormed(name)
  /\ (Finished /\ faults = 0) =>
       /\ \A j \in DOMAIN job : Len(RowsOf("archivos", j)) = Len(DrivesRows(job[j].drives))
       /\ Registros("archivos") =
            Sum([j \in DOMAIN job |-> Len(DrivesRows(job[j].drives))], DOMAIN job)

\* C3 witness: two jobs have appended two rows each to the file stream and
\* their rows alternate in it; the run has finished.
C3_Witness ==
  /\ Finished
  /\ faults = 0
  /\ Len(job) >= 2
  /\ Len(RowsOf("archivos", 1)) = 2
  /\ Len(RowsOf("archivos", 2)) = 2
  /\ LET h == Heads("archivos")
     IN  h[1].job = 1 /\ h[2].job = 2 /\ h[3].job = 1 /\ h[4].job = 2

\* C4: a failure inside one job stays inside it. The job that met it leaves
\* nothing behind that could stop another (a lock is held only by a job that
\* is inside the block that took it), and when the run has finished every
\* job that met no failure has written exactly the rows it writes in a run
\* without failures, in their order, whatever happened in the other jobs.
C4_FailureIsolated ==
  /\ csv_lock # 0 => InCsv(csv_lock)
  /\ print_lock # 0 => job[print_lock].pc = "printed"
  /\ Finished =>
       \A j \in DOMAIN job :
         ~job[j].hit =>
           /\ job[j].pc = "done"
           /\ RowsOf("archivos", j) = DrivesRows(job[j].drives)
           /\ RowsOf(file_of(j), j) =
                [k \in DOMAIN job[j].drives |-> row_k(job[j], k)]


Frames == UNION {Range(job[j].stack) : j \in DOMAIN job}

\* C1: with max_depth = D no emitted file record has profundidad > D, and a
\* folder emitted at profundidad = D is in the file but is never listed: no
\* activation of listar_archivos_recursivo exists for it and no request for
\* its children is made.
C1_DepthBound ==
  \A k \in DOMAIN Heads("archivos") :
    LET r == Heads("archivos")[k].row
    IN  /\ r.profundidad <= max_depth
        /\ (r.tipo = "carpeta" /\ r.profundidad = max_depth) =>
             /\ <<r.drive_id, r.nodo>> \notin listed
             /\ \A f \in Frames : ~(f.drive_id = r.drive_id /\ f.item_id = r.nodo)

\* C1 witness: the traversal has returned, a folder that has children was
\* emitted at the depth limit, and a deeper level above it was listed.
C1_Witness ==
  /\ job[1].pc = "print"
  /\ max_depth = 1
  /\ faults = 0
  /\ \E k \in DOMAIN Heads("archivos") :
       LET r == Heads("archivos")[k].row
       IN  /\ r.tipo = "carpeta"
           /\ r.profundidad = max_depth
           /\ Children(tenant.tree[r.drive_id], r.nodo) # <<>>
\* C4 witness: the run has finished, one job met a failure and another job,
\* which met none, has written rows to the file stream.
C4_Witness ==
  /\ Finished
  /\ \E j, k \in DOMAIN job :
       /\ job[j].hit
       /\ ~job[k].hit
       /\ job[j].kind = job[k].kind
       /\ RowsOf("archivos", k) # <<>>

\* the main thread is past a pool only when every job of that pool is done
C5_AllDone ==
  /\ pc_main = "wait_sites" =>
       \A j \in DOMAIN job : job[j].kind = "user" => job[j].pc = "done"
  /\ pc_main = "exit" => \A j \in DOMAIN job : job[j].pc = "done"

\* C5: the final summary is not reached while a submitted job is pending or
\* running: the site pool is not created before every user job is done, the
\* summary is not printed before every job is done; and no submitted job is
\* cancelled: a pending job leaves the queue only by being run.
C5_PoolWaits ==
  /\ []C5_AllDone
  /\ [][\A j \in DOMAIN job :
          job[j].pc = "pending" => job'[j].pc \in {"pending", "default", "sdrives"}]_vars

\* C5 witness: the summary has been printed after a user job and a site job
\* ran.
C5_Witness ==
  /\ Finished
  /\ \E j, k \in DOMAIN job : job[j].kind = "user" /\ job[k].kind = "site"
  /\ resumen["archivos"] > 0

\* C6: when authentication fails the run ends with a non-zero exit status
\* and none of the three output files has been created.
AuthFailed == pc_main = "exit" /\ resumen = <<>>
C6_AuthFailure == AuthFailed => exit_status # 0 /\ files = NoFiles

(* ------------------------------ pagination ---------------------------- *)
\* C2: when the service holds N items in pages joined by continuation links
\* and every answer is a success, each of the four paginating loops returns
\* exactly those N items, in order: listar_todos_los_usuarios,
\* listar_todos_los_sites, the loop of listar_archivos_recursivo and
\* list_files.
C2_AllPages ==
  faults = 0 =>
    /\ pc_main \in {"sites", "submit_users"} => usuarios = tenant.users
    /\ pc_main = "submit_users" => sites = tenant.sites
    /\ \A f \in Frames : f.ph = "loop" => f.items = Listing(f)
    /\ (ex.pc = "listed" /\ drive_id # 0) =>
         ex.items = Children(tenant.tree[drive_id], ex.item)

\* C2 witness: the users' loop has returned MaxItems users that came in more
\* than one page, every answer a success.
C2_Witness ==
  /\ faults = 0
  /\ pc_main = "sites"
  /\ page > 1
  /\ Len(usuarios) = MaxItems
  /\ usuarios = tenant.users

(* ---------------------------- a user's drives -------------------------- *)
NoRepeat(drives) ==
  \A a, b \in DOMAIN drives : drives[a].id = drives[b].id => a = b

\* the ids a user's two calls can answer with
Offered(u) == ({tenant.udef[u]} \ {0}) \cup Range(tenant.ulist[u])

\* C7: the drives obtener_todos_los_drives_usuario and get_user_drives
\* collect for a user hold each drive id once, however often the default
\* drive call and the drive list call answer with it; with every answer a
\* success the default drive is first and the first drive of the list is
\* there.
C7_NoRepeatedDrive ==
  /\ \A j \in DOMAIN job :
       job[j].pc = "drive" =>
         /\ NoRepeat(job[j].drives)
         /\ DriveIds(job[j].drives) \subseteq Offered(job[j].who)
         /\ faults = 0 /\ tenant.udef[job[j].who] # 0 =>
              job[j].drives[1].id = tenant.udef[job[j].who]
         /\ faults = 0 /\ tenant.ulist[job[j].who] # <<>> =>
              tenant.ulist[job[j].who][1] \in DriveIds(job[j].drives)
  /\ ex.pc \in {"select", "done"} =>
       /\ NoRepeat(available_drives)
       /\ DriveIds(available_drives) \subseteq Offered(1)
       /\ faults = 0 /\ tenant.udef[1] # 0 => available_drives[1].id = tenant.udef[1]
       /\ faults = 0 /\ tenant.ulist[1] # <<>> =>
            tenant.ulist[1][1] \in DriveIds(available_drives)

\* C7 witness: the list repeats the default drive and names another drive
\* twice; the job holds the two drives, once each.
C7_Witness ==
  \E j \in DOMAIN job :
    /\ job[j].pc = "drive"
    /\ Len(job[j].drives) = 2
    /\ Len(tenant.ulist[job[j].who]) = 3
    /\ tenant.udef[job[j].who] \in Range(tenant.ulist[job[j].who])
    /\ \E a, b \in DOMAIN tenant.ulist[job[j].who] :
         /\ a # b
         /\ tenant.ulist[job[j].who][a] = tenant.ulist[job[j].who][b]
         /\ tenant.ulist[job[j].who][a] # tenant.udef[job[j].who]

(* --------------------------- get_drives_from_url ---------------------- *)
Asked(r) == \E k \in DOMAIN x_log : x_log[k] = r
Parsed == ex.pc # "url" /\ ex.email # <<>>

\* C8: get_drives_from_url makes the search of all sites only after the
\* lookup of the user; it makes it when the lookup answers 200 with no user
\* and when it answers 403; and every drive the search yields is stored in
\* available_drives with type 'huerfano'.
C8_GlobalSearchFallback ==
  /\ \A k \in DOMAIN x_log :
       x_log[k] = "search" => \E m \in 1..(k - 1) : x_log[m] = "users"
  /\ (ex.pc = "done" /\ ex.lookup \in {"empty", "403"}) => Asked("search")
  /\ (ex.pc \in {"select", "done"} /\ Asked("search") /\ ex.drives # <<>>) =>
       available_drives = [k \in DOMAIN ex.drives |-> [id |-> ex.drives[k], type |-> "huerfano"]]

\* C8 witness: the lookup answered 403, the search found more than one
\* drive, stored as 'huerfano', and one was chosen.
C8_Witness ==
  /\ ex.pc = "done"
  /\ ex.lookup = "403"
  /\ Asked("search")
  /\ Len(available_drives) > 1
  /\ \A k \in DOMAIN available_drives : available_drives[k].type = "huerfano"
  /\ ex.ret = TRUE

\* C9 as the specification words it: with every answer a success,
\* get_drives_from_url on a well-formed URL returns failure only when the
\* search of all sites has been made too and no strategy yielded a drive.
C9_FailsOnlyAfterAll ==
  (ex.pc = "done" /\ ex.ret = FALSE /\ Parsed /\ faults = 0) =>
    /\ Asked("search")
    /\ available_drives = <<>>
    /\ ex.drives = <<>>

\* C9: get_drives_from_url on a well-formed URL returns failure in these
\* cases and no other: (a) the lookup found the user and the user's two
\* drive calls yielded no drive, and then the search of all sites is not
\* made; (b) the lookup found no user (no match, 403, another status) and
\* the search, which is made, yielded no drive; (c) more than one drive was
\* found and the prompt was not answered with the number of one of them;
\* (d) the lookup itself raised.
C9_ResolutionFailure ==
  /\ (ex.pc = "done" /\ ex.ret = FALSE /\ Parsed) =>
       \/ ex.lookup = "found" /\ available_drives = <<>> /\ ~Asked("search")
       \/ ex.lookup \in {"empty", "403", "error"} /\ Asked("search") /\ ex.drives = <<>>
       \/ Len(available_drives) > 1 /\ drive_id = 0
       \/ ex.lookup = "raise" /\ ~Asked("search")
  /\ (ex.pc = "done" /\ ex.ret = TRUE) =>
       /\ drive_id \in DriveIds(available_drives)
       /\ ex.lookup = "found" <=> ~Asked("search")

\* C9 witness: the user is found and has no drive; failure is returned with
\* every answer a success and the sites never searched.
C9_Witness ==
  /\ ex.pc = "done"
  /\ ex.ret = FALSE
  /\ Parsed
  /\ faults = 0
  /\ ex.lookup = "found"
  /\ available_drives = <<>>
  /\ ~Asked("search")

(* ------------------------ the email of a URL -------------------------- *)
Underscores(t) == {k \in DOMAIN t : t[k] = "_"}

\* s1.s2.....s(k-2)@s(k-1).sk for the text s1_s2_..._sk: its last '_' is
\* '.', the one before is '@', every earlier one is '.'
Dotted(t) ==
  [k \in DOMAIN t |->
     IF t[k] # "_" THEN t[k]
     ELSE IF Cardinality({m \in Underscores(t) : m > k}) = 1 THEN "@" ELSE "."]

\* where occurrences of '/personal/' start in t
Occurrences(t) == {k \in 1..(Len(t) - 2) : SubSeq(t, k, k + 2) = Marker}

\* the text after the one '/personal/' of t
AfterOnly(t) == SubSeq(t, (CHOOSE k \in Occurrences(t) : TRUE) + 3, Len(t))

\* t without the '/' it ends with
Stripped(t) ==
  SubSeq(t, 1, CHOOSE n \in 0..Len(t) :
                 /\ n > 0 => t[n] # "/"
                 /\ \A m \in (n + 1)..Len(t) : t[m] = "/")

\* where the text after the last '/personal/' of t starts, the occurrences
\* counted from the left from position k on, none overlapping the one before
RECURSIVE AfterFrom(_, _)
AfterFrom(t, k) ==
  IF \A m \in Occurrences(t) : m < k THEN k
  ELSE AfterFrom(t, 3 + CHOOSE m \in Occurrences(t) :
                          m >= k /\ \A n \in Occurrences(t) : n >= k => m <= n)

AfterLast(t) == SubSeq(t, AfterFrom(t, 1), Len(t))

\* no part of t between '_' is empty, and t holds '/' at its end at most
PlainParts(t) ==
  /\ t # <<>>
  /\ t[1] # "_"
  /\ Last(t) # "_"
  /\ \A k \in 1..(Len(t) - 1) : t[k] # "/" /\ ~(t[k] = "_" /\ t[k + 1] \in {"_", "/"})

\* C10 as the specification words it, for the URLs that hold '/personal/'
\* at most once, followed by non-empty parts: if the text of the URL after
\* '/personal/' is k >= 3 parts s1_..._sk the email is
\* s1.....s(k-2)@s(k-1).sk; with fewer parts, or no '/personal/' in the URL,
\* False is returned and no lookup is asked.
C10_EmailOfUrl ==
  (/\ ex.pc # "url"
   /\ Cardinality(Occurrences(ex.url)) <= 1
   /\ Occurrences(ex.url) # {} => PlainParts(AfterOnly(ex.url))) =>
    IF Occurrences(ex.url) # {} /\ Cardinality(Underscores(AfterOnly(ex.url))) >= 2
    THEN ex.email = Dotted(AfterOnly(ex.url))
    ELSE ex.pc = "done" /\ ex.ret = FALSE /\ x_log = <<>>

\* C10: let u be the URL without the '/' it ends with. If u holds
\* '/personal/' and the text of u after the last '/personal/' (occurrences
\* counted from the left, not overlapping) is k >= 3 parts s1_..._sk, the
\* email is s1.....s(k-2)@s(k-1).sk and the lookup is asked with it;
\* otherwise False is returned and no lookup is asked.
C10_EmailOfStrippedUrl ==
  ex.pc # "url" =>
    LET u == Stripped(ex.url)
    IN  IF Occurrences(u) # {} /\ Cardinality(Underscores(AfterLast(u))) >= 2
        THEN ex.email = Dotted(AfterLast(u)) /\ ex.pc # "done"
        ELSE ex.pc = "done" /\ ex.ret = FALSE /\ x_log = <<>>

\* C10 witness: a URL that ends with '/' and names three parts after
\* '/personal/' has been parsed and the lookup asked.
C10_Witness ==
  /\ ex.pc \in {"gud_drive", "search"}
  /\ x_log = <<"users">>
  /\ Last(ex.url) = "/"
  /\ ex.email = <<"a", "@", "a", ".", "a">>

(* SpecJob: one job of either pool from its loop over two drives on, each
   drive holding the same tree, over every tree of up to MaxNodes nodes. *)
JobAtDrives(kind) ==
  [NewJob(kind, 1) EXCEPT
     !.pc = "drive",
     !.drives = IF kind = "user"
                THEN <<[id |-> 1, type |-> "personal"], [id |-> 2, type |-> "shared"]>>
                ELSE <<[id |-> 1, type |-> "site"], [id |-> 2, type |-> "site"]>>]

InitJob ==
  /\ \E t \in AllTrees :
       tenant = [users |-> <<1>>, sites |-> <<1>>, udef |-> <<1>>,
                 ulist |-> <<<<1, 2>>>>, sdrives |-> <<<<1, 2>>>>, tree |-> <<t, t>>]
  /\ max_depth \in 0..MaxD
  /\ max_workers = 1
  /\ faults = 0
  /\ files = HeaderOnly
  /\ csv_lock = 0
  /\ print_lock = 0
  /\ listed = {}
  /\ \/ job = <<JobAtDrives("user")>> /\ MainAt("wait_users", <<1>>, <<1>>)
     \/ job = <<JobAtDrives("site")>> /\ MainAt("wait_sites", <<>>, <<1>>)
  /\ ExplorerIdle

NextJob ==
  \/ \E j \in DOMAIN job : procesar_csv_lock(j)
  \/ \E j \in DOMAIN job : procesar_open(j)
  \/ \E j \in DOMAIN job : procesar_open_raise(j)
  \/ \E j \in DOMAIN job : procesar_writerow(j)
  \/ \E j \in DOMAIN job : procesar_end(j)
  \/ \E j \in DOMAIN job : safe_print(j)
  \/ \E j \in DOMAIN job : safe_print_exit(j)
  \/ \E j \in DOMAIN job : listar_enter(j)
  \/ \E j \in DOMAIN job : listar_get(j)
  \/ \E j \in DOMAIN job : listar_get_error(j)
  \/ \E j \in DOMAIN job : listar_get_raise(j)
  \/ \E j \in DOMAIN job : listar_return(j)
  \/ \E j \in DOMAIN job : listar_csv_lock(j)
  \/ \E j \in DOMAIN job : listar_open(j)
  \/ \E j \in DOMAIN job : listar_open_raise(j)
  \/ \E j \in DOMAIN job : listar_writerow(j)

SpecJob == InitJob /\ [][NextJob]_vars

(* SpecSite: one job of the site pool from its first request on, for a site
   of two drives that the service may deliver on one page or on two. *)
InitSite ==
  /\ \E t \in AllTrees :
       tenant = [users |-> <<>>, sites |-> <<1>>, udef |-> <<>>,
                 ulist |-> <<>>, sdrives |-> <<<<1, 2>>>>, tree |-> <<t, t>>]
  /\ max_depth \in 0..MaxD
  /\ max_workers = 1
  /\ faults = 0
  /\ files = HeaderOnly
  /\ csv_lock = 0
  /\ print_lock = 0
  /\ listed = {}
  /\ job = <<[NewJob("site", 1) EXCEPT !.pc = "sdrives"]>>
  /\ MainAt("wait_sites", <<>>, <<1>>)
  /\ ExplorerIdle

NextSite ==
  \/ \E j \in DOMAIN job : site_drives_get(j)
  \/ \E j \in DOMAIN job : site_drives_error(j)
  \/ \E j \in DOMAIN job : site_drives_raise(j)
  \/ \E j \in DOMAIN job : procesar_csv_lock(j)
  \/ \E j \in DOMAIN job : procesar_open(j)
  \/ \E j \in DOMAIN job : procesar_open_raise(j)
  \/ \E j \in DOMAIN job : procesar_writerow(j)
  \/ \E j \in DOMAIN job : procesar_end(j)
  \/ \E j \in DOMAIN job : safe_print(j)
  \/ \E j \in DOMAIN job : safe_print_exit(j)
  \/ \E j \in DOMAIN job : listar_enter(j)
  \/ \E j \in DOMAIN job : listar_get(j)
  \/ \E j \in DOMAIN job : listar_get_error(j)
  \/ \E j \in DOMAIN job : listar_get_raise(j)
  \/ \E j \in DOMAIN job : listar_return(j)
  \/ \E j \in DOMAIN job : listar_csv_lock(j)
  \/ \E j \in DOMAIN job : listar_open(j)
  \/ \E j \in DOMAIN job : listar_open_raise(j)
  \/ \E j \in DOMAIN job : listar_writerow(j)

SpecSite == InitSite /\ [][NextSite]_vars

(* SpecRepeats: a service whose drive listings may name a drive more than
   once: one job of the site pool for a site whose listing is any list of up
   to MaxList ids, and the explorer's search over two sites with any such
   listings. Each drive holds one file; --depth is 0. *)
OneFile == [par |-> <<0>>, fol |-> <<FALSE>>]

RepeatsTenant(l1, l2) ==
  [users |-> <<>>, sites |-> <<1, 2>>, udef |-> <<>>, ulist |-> <<>>,
   sdrives |-> <<l1, l2>>, tree |-> [d \in 1..MaxIds |-> OneFile]]

InitRepeats ==
  /\ \E l1 \in Lists(MaxList), l2 \in Lists(MaxList) : tenant = RepeatsTenant(l1, l2)
  /\ max_depth = 0
  /\ max_workers = 1
  /\ faults = 0
  /\ files = HeaderOnly
  /\ csv_lock = 0
  /\ print_lock = 0
  /\ listed = {}
  /\ \/ \* procesar_site_paralelo for the first site
        /\ job = <<[NewJob("site", 1) EXCEPT !.pc = "sdrives"]>>
        /\ MainAt("wait_sites", <<>>, <<1>>)
        /\ ExplorerIdle
     \/ \* search_all_drives_by_email, called from line 153
        /\ job = <<>>
        /\ MainAt("off", <<>>, <<>>)
        /\ ex = [NoEx EXCEPT !.pc = "search", !.email = <<"a", "@", "b", ".", "c">>]
        /\ drive_id = 0
        /\ current_item_id = 0
        /\ current_path = <<>>
        /\ available_drives = <<>>
        /\ x_log = <<>>

NextRepeats ==
  \/ \E j \in DOMAIN job : site_drives_get(j)
  \/ \E j \in DOMAIN job : site_drives_error(j)
  \/ \E j \in DOMAIN job : site_drives_raise(j)
  \/ \E j \in DOMAIN job : procesar_csv_lock(j)
  \/ \E j \in DOMAIN job : procesar_open(j)
  \/ \E j \in DOMAIN job : procesar_open_raise(j)
  \/ \E j \in DOMAIN job : procesar_writerow(j)
  \/ \E j \in DOMAIN job : procesar_end(j)
  \/ \E j \in DOMAIN job : safe_print(j)
  \/ \E j \in DOMAIN job : safe_print_exit(j)
  \/ \E j \in DOMAIN job : listar_enter(j)
  \/ \E j \in DOMAIN job : listar_get(j)
  \/ \E j \in DOMAIN job : listar_get_error(j)
  \/ \E j \in DOMAIN job : listar_get_raise(j)
  \/ \E j \in DOMAIN job : listar_return(j)
  \/ \E j \in DOMAIN job : listar_csv_lock(j)
  \/ \E j \in DOMAIN job : listar_open(j)
  \/ \E j \in DOMAIN job : listar_open_raise(j)
  \/ \E j \in DOMAIN job : listar_writerow(j)
  \/ search_sites
  \/ search_sites_fails
  \/ search_site_drives
  \/ search_site_drives_fails
  \/ search_returns
  \/ select_drive

SpecRepeats == InitRepeats /\ [][NextRepeats]_vars

(* SpecCmds: up to MaxCmds commands typed at the explorer's prompt, on a
   drive that holds any tree of MaxNodes nodes, or with no drive selected. *)
InitCmds ==
  /\ \E t \in Trees(MaxNodes) :
       tenant = [users |-> <<>>, sites |-> <<>>, udef |-> <<>>, ulist |-> <<>>,
                 sdrives |-> <<>>, tree |-> <<t>>]
  /\ faults = 0
  /\ EnumeratorOff
  /\ ex = [NoEx EXCEPT !.pc = "prompt"]
  /\ drive_id \in {0, 1}
  /\ current_item_id = 0
  /\ current_path = <<>>
  /\ available_drives = <<>>
  /\ x_log = <<>>

NextCmds ==
  \/ cmd_cd_up
  \/ cmd_cd_root
  \/ cmd_lists
  \/ cmd_cd_item
  \/ cmd_listed
  \/ cmd_pwd
  \/ list_files_get
  \/ list_files_error
  \/ list_files_raise

SpecCmds == InitCmds /\ [][NextCmds]_vars

(* SpecPair: two jobs of the user pool in listar_archivos_recursivo at the
   same time, each on its own drive: the first drive holds any tree of
   MaxNodes nodes, the second two files; --depth is MaxD. *)
TwoFiles == [par |-> <<0, 0>>, fol |-> <<FALSE, FALSE>>]

InitPair ==
  /\ \E t \in Trees(MaxNodes) :
       tenant = [users |-> <<1, 2>>, sites |-> <<>>, udef |-> <<1, 2>>,
                 ulist |-> <<<<>>, <<>>>>, sdrives |-> <<>>, tree |-> <<t, TwoFiles>>]
  /\ max_depth = MaxD
  /\ max_workers = 2
  /\ faults = 0
  /\ files = HeaderOnly
  /\ csv_lock = 0
  /\ print_lock = 0
  /\ job = <<WalkingJob("user", 1, <<[id |-> 1, type |-> "personal"]>>, 1),
             WalkingJob("user", 2, <<[id |-> 2, type |-> "personal"]>>, 1)>>
  /\ listed = {}
  /\ MainAt("wait_users", <<1, 2>>, <<>>)
  /\ ExplorerIdle

SpecPair == InitPair /\ [][NextTraverse]_vars

(* SpecScenario: a whole run with --depth 1 over a tenant of three users,
   the first with two drives and the others with one each, no site; every
   drive holds at its root one file and one folder with one file in it;
   every request and every append succeeds. *)
ScenarioTree == [par |-> <<0, 0, 2>>, fol |-> <<FALSE, TRUE, FALSE>>]

InitScenario ==
  /\ tenant = [users |-> <<1, 2, 3>>, sites |-> <<>>, udef |-> <<1, 2, 3>>,
               ulist |-> <<<<1, 4>>, <<2>>, <<3>>>>, sdrives |-> <<>>,
               tree |-> [d \in 1..4 |-> ScenarioTree]]
  /\ max_depth = 1
  /\ max_workers \in 1..MaxWorkers
  /\ faults = 0
  /\ files = NoFiles
  /\ csv_lock = 0
  /\ print_lock = 0
  /\ job = <<>>
  /\ listed = {}
  /\ MainAt("start", <<>>, <<>>)
  /\ ExplorerIdle

NextScenario ==
  \/ crear_csvs
  \/ get_access_token
  \/ listar_todos_los_usuarios_get
  \/ listar_todos_los_sites_get
  \/ submit_usuarios
  \/ as_completed
  \/ submit_sites
  \/ resumen_final
  \/ \E j \in DOMAIN job : worker_takes(j)
  \/ \E j \in DOMAIN job : obtener_drive(j)
  \/ \E j \in DOMAIN job : obtener_drives(j)
  \/ \E j \in DOMAIN job : procesar_csv_lock(j)
  \/ \E j \in DOMAIN job : procesar_open(j)
  \/ \E j \in DOMAIN job : procesar_writerow(j)
  \/ \E j \in DOMAIN job : procesar_end(j)
  \/ \E j \in DOMAIN job : safe_print(j)
  \/ \E j \in DOMAIN job : safe_print_exit(j)
  \/ \E j \in DOMAIN job : listar_enter(j)
  \/ \E j \in DOMAIN job : listar_get(j)
  \/ \E j \in DOMAIN job : listar_return(j)
  \/ \E j \in DOMAIN job : listar_csv_lock(j)
  \/ \E j \in DOMAIN job : listar_open(j)
  \/ \E j \in DOMAIN job : listar_writerow(j)

SpecScenario == InitScenario /\ [][NextScenario]_vars

(* ----------------------- failures while paginating -------------------- *)
\* the first n items of a collection: what its pages before the one at
\* offset n held
Before(coll, n) == SubSeq(coll, 1, n)

\* a loop that ended by break stands with the url of the request that
\* failed; one that ended normally stands with no url
Broke(f) == f.ph \notin {"enter", "get"} /\ f.url # NoUrl

\* C11: when page k of a paginated query is answered with a non-success
\* status the loop stops, asks nothing more for that collection, raises
\* nothing to its caller and returns (the traversal: goes on to process)
\* exactly the items of pages 1..k-1: the users' and the sites' loop hand
\* what they had to the next statement of the caller, the listing of a
\* folder enters its loop over the items with them, list_files returns them;
\* and a list that has been returned does not change any more.
C11_StopsAtFailedPage ==
  /\ [](/\ \A f \in Frames : Broke(f) => f.items = Before(Listing(f), f.url)
        /\ (ex.pc = "listed" /\ ex.resp = "error") =>
             ex.items = Before(Children(tenant.tree[drive_id], ex.item), ex.cur))
  /\ [][/\ (pc_main = "usuarios" /\ faults' # faults) =>
             usuarios' = usuarios /\ pc_main' = "sites"
        /\ (pc_main = "sites" /\ faults' # faults) =>
             sites' = sites /\ pc_main' = "submit_users"
        /\ pc_main # "usuarios" => usuarios' = usuarios
        /\ pc_main \notin {"usuarios", "sites"} => sites' = sites
        /\ \A j \in DOMAIN job :
             (Walking(j, "get") /\ faults' # faults /\ job'[j].resp = "error") =>
               /\ job'[j].pc = "walk"
               /\ Len(job'[j].stack) = Len(job[j].stack)
               /\ Last(job'[j].stack) = [Top(j) EXCEPT !.ph = "loop"]
        /\ ex.pc = "listed" => ex' = ex]_vars

\* C11 witness: list_files has returned the items of the pages before the
\* one that was answered with an error status, some but not all of the
\* folder's children.
C11_Witness ==
  /\ ex.pc = "listed"
  /\ ex.resp = "error"
  /\ ex.items # <<>>
  /\ Len(ex.items) < Len(Children(tenant.tree[drive_id], ex.item))

(* -------------------- a listing that fails in a job ------------------- *)
\* row r is of a node strictly below folder f of drive d (f = 0: the root)
Under(r, d, f) ==
  /\ r.drive_id = d
  /\ f = 0 \/ \E k \in 1..(Len(r.ruta) - 1) : r.ruta[k] = f

\* the rows of want that are among have, in the order of want
Kept(want, have) == SelectSeq(want, LAMBDA r : r \in Range(have))

\* C12: when the listing of one folder of a job fails (error status or
\* raised exception) and nothing else does, the finished job has appended,
\* in their order, all the file rows it would have appended without the
\* failure except rows of nodes below that folder: every node outside the
\* folder's subtree, its later siblings and their subtrees included, has its
\* row; and every drive of the job has its row in the drives' file.
C12_OnlySubtreeTruncated ==
  \A j \in DOMAIN job :
    (job[j].pc = "done" /\ job[j].lost = 0 /\ job[j].cut # {}) =>
      LET want == DrivesRows(job[j].drives)
          have == RowsOf("archivos", j)
      IN  /\ have = Kept(want, have)
          /\ \A k \in DOMAIN want :
               want[k] \notin Range(have) =>
                 \E c \in job[j].cut : Under(want[k], c[1], c[2])
          /\ Len(RowsOf(file_of(j), j)) = Len(job[j].drives)

\* C12 witness: the listing of a folder of the first drive failed; a row
\* below it is missing, a later sibling of the folder has its row and so has
\* a node of the second drive.
C12_Witness ==
  \E j \in DOMAIN job :
    /\ job[j].pc = "done"
    /\ \E c \in job[j].cut :
         /\ c[1] = 1
         /\ c[2] # 0
         /\ \E r \in Range(DrivesRows(job[j].drives)) :
              Under(r, c[1], c[2]) /\ r \notin Range(RowsOf("archivos", j))
         /\ \E r \in Range(RowsOf("archivos", j)) :
              r.drive_id = 1 /\ r.nodo > c[2] /\ ~Under(r, c[1], c[2])
    /\ \E r \in Range(RowsOf("archivos", j)) : r.drive_id = 2

(* --------------------------- order of the rows ------------------------ *)
\* the folder the node of row r is a child of (0: the root of the drive)
ParentOf(r) == IF Len(r.ruta) = 1 THEN 0 ELSE r.ruta[Len(r.ruta) - 1]

\* the jobs of the rows of the files' file, in file order
Writers == [k \in DOMAIN Heads("archivos") |-> Heads("archivos")[k].job]

\* C13: the file rows of one job stand in the file in pre-order of the tree
\* it traversed, whatever other jobs write in between: no row of a node
\* stands before the row of a folder above it; the rows below a folder
\* follow the folder's row with no row from outside the folder among them,
\* so they all precede the folder's next sibling; children of one folder
\* stand in the order the service lists them; and no child of a folder has
\* a row while the listing of that folder's children has not finished.
C13_PreOrder ==
  \A j \in DOMAIN job :
    LET have == RowsOf("archivos", j)
    IN  /\ \A p, q \in DOMAIN have :
             p < q =>
               /\ ~Under(have[p], have[q].drive_id, have[q].nodo)
               /\ (have[p].drive_id = have[q].drive_id /\ ParentOf(have[p]) = ParentOf(have[q]))
                    => have[p].nodo < have[q].nodo
               /\ \A r \in DOMAIN have :
                    (q < r /\ Under(have[r], have[p].drive_id, have[p].nodo))
                      => Under(have[q], have[p].drive_id, have[p].nodo)
        /\ \A k \in DOMAIN job[j].stack :
             job[j].stack[k].ph \in {"enter", "get"} =>
               \A p \in DOMAIN have :
                 ~(/\ have[p].drive_id = job[j].stack[k].drive_id
                   /\ ParentOf(have[p]) = job[j].stack[k].item_id)

\* C13 witness: a job wrote the row of a folder, the row of a node below it
\* and then the row of the folder's next sibling, and a row of the other job
\* stands between two of them.
C13_Witness ==
  \E a, b, c \in DOMAIN Heads("archivos") :
    /\ a < b /\ b < c
    /\ Writers[a] = 1 /\ Writers[b] = 2 /\ Writers[c] = 1
    /\ \E p, q, r \in DOMAIN RowsOf("archivos", 1) :
         /\ p < q /\ q < r
         /\ Under(RowsOf("archivos", 1)[q], 1, RowsOf("archivos", 1)[p].nodo)
         /\ ParentOf(RowsOf("archivos", 1)[r]) = ParentOf(RowsOf("archivos", 1)[p])

(* ------------------------- an append that fails ----------------------- *)
\* C14: when an append to one of the three files fails, a line is printed
\* for it, and no other job is aborted by it: a job that has ended has
\* printed an error line for each of its appends that raised, and once the
\* run has ended every job has.
C14_WriteFailureReported ==
  /\ \A j \in DOMAIN job : job[j].pc = "done" => job[j].said >= job[j].lost
  /\ pc_main = "exit" => \A j \in DOMAIN job : job[j].pc = "done"

(* ------------------------ the drive that is selected ------------------ *)
Prompted == ex.choice.kind # "none"

\* C15: in the explorer, when the resolution (by the user or by the search
\* of all sites) yields exactly one drive, drive_id becomes that drive's id
\* and nothing is asked; when it yields more than one, select_drive asks,
\* and drive_id becomes the id of the entry of available_drives that a valid
\* index names, while any other answer returns False and leaves drive_id as
\* it was. drive_id never changes to anything but the id of an entry of
\* available_drives.
C15_DriveSelection ==
  /\ [](ex.pc = "done" =>
          /\ Len(available_drives) = 1 =>
               /\ ~Prompted
               /\ ex.ret = TRUE
               /\ drive_id = available_drives[1].id
          /\ Len(available_drives) > 1 =>
               /\ Prompted
               /\ Valid(ex.choice) => ex.ret = TRUE /\ drive_id = available_drives[ex.choice.n].id
               /\ ~Valid(ex.choice) => ex.ret = FALSE
          /\ Prompted => Len(available_drives) > 1)
  /\ [][/\ drive_id' # drive_id => drive_id' \in DriveIds(available_drives')
        /\ (ex.pc = "select" /\ ex'.pc = "done" /\ ex'.ret = FALSE) => drive_id' = drive_id]_vars

\* C15 witness: the search of all sites found several drives and the second
\* one was chosen at the prompt.
C15_Witness ==
  /\ ex.pc = "done"
  /\ Asked("search")
  /\ Len(available_drives) > 1
  /\ ex.choice = [kind |-> "digits", n |-> 2]
  /\ drive_id = available_drives[2].id

(* ----------------------- every drive of a user ------------------------ *)
\* the rows of job j that are whole in a file, in file order
WholeRows(name, j) ==
  LET mine == SelectSeq(files[name], LAMBDA c : c.part = "tail" /\ c.job = j)
  IN  [k \in DOMAIN mine |-> mine[k].row]

\* the rows a user job has to append: one for each of its drives, in order
DriveRowsOf(j) == [k \in DOMAIN job[j].drives |-> user_row(job[j], k)]

\* the traversals that go with rows: of the row's drive, from its root, with
\* path '/' and depth 0
FromRoot(rows) == [k \in DOMAIN rows |-> Frame(rows[k].drive_id, 0, <<>>, 0)]

\* C16 as the specification words it: a user job that has ended has appended
\* one row for each of its drives and started one traversal of each from the
\* root.
C16_EveryDrive ==
  \A j \in DOMAIN job :
    (job[j].kind = "user" /\ job[j].pc = "done") =>
      /\ WholeRows("usuarios", j) = DriveRowsOf(j)
      /\ job[j].walks = FromRoot(DriveRowsOf(j))

\* C16: for each drive returned by obtener_todos_los_drives_usuario whose
\* row is appended without an error, the user job appends exactly one row to
\* the users' file and then starts exactly one traversal of that drive from
\* its root with path '/' and depth 0, asking nothing; a drive whose append
\* raises gets an error line and neither row nor traversal.
C16_EveryDriveWritten ==
  \A j \in DOMAIN job :
    job[j].kind = "user" =>
      /\ job[j].walks = FromRoot(WholeRows("usuarios", j))
      /\ WholeRows("usuarios", j) = Kept(DriveRowsOf(j), WholeRows("usuarios", j))
      /\ job[j].pc = "done" =>
           Len(WholeRows("usuarios", j)) + job[j].said = Len(job[j].drives)
      /\ (job[j].pc = "done" /\ job[j].said = 0) =>
           WholeRows("usuarios", j) = DriveRowsOf(j)

\* C16 witness: a user job has ended with a row and a traversal for each of
\* its two drives.
C16_Witness ==
  \E j \in DOMAIN job :
    /\ job[j].kind = "user"
    /\ job[j].pc = "done"
    /\ Len(WholeRows("usuarios", j)) = 2
    /\ Len(job[j].walks) = 2
    /\ job[j].walks[2].drive_id = 2

(* ------------------------- the whole run, depth 1 --------------------- *)
\* the rows that are whole in a file, in file order
Rows(name) ==
  LET whole == SelectSeq(files[name], LAMBDA c : c.part = "tail")
  IN  [k \in DOMAIN whole |-> whole[k].row]

RowsAt(prof) == {k \in DOMAIN Rows("archivos") : Rows("archivos")[k].profundidad = prof}

\* C17: three users, the first with two drives, the others with one each,
\* --depth 1, each drive with one file and one folder at its root and one
\* file in that folder, nothing failing: the run appends exactly 4 rows to
\* the users' file, the files' file has a record of depth 0 for every item
\* at the root of every drive, and no record of depth 2 is ever written.
C17_Scenario ==
  /\ RowsAt(2) = {}
  /\ Finished =>
       /\ Len(Rows("usuarios")) = 4
       /\ Len(files["usuarios"]) = 1 + 2 * 4
       /\ \A d \in DOMAIN tenant.tree :
            \A c \in DOMAIN tenant.tree[d].par :
              tenant.tree[d].par[c] = 0 =>
                \E k \in RowsAt(0) :
                  /\ Rows("archivos")[k].drive_id = d
                  /\ Rows("archivos")[k].nodo = c

(* ------------------------- header, then appends ----------------------- *)
FileNames == {"usuarios", "sites", "archivos"}
Created == pc_main # "start"
\* no job has been submitted yet
NoJobYet == pc_main \in {"start", "auth", "usuarios", "sites", "submit_users"}

\* a created file is its header followed by the chunks of rows, and until
\* the first job is submitted it is its header alone
HeaderFirst ==
  Created =>
    /\ NoJobYet => files = HeaderOnly
    /\ \A n \in FileNames :
         /\ files[n] # Absent
         /\ files[n][1] = Header(n)
         /\ \A k \in 2..Len(files[n]) : files[n][k].part \in {"head", "tail"}

\* a step leaves a created file as it is or adds one chunk at its end
AppendOnly ==
  Created =>
    \A n \in FileNames :
      \/ files'[n] = files[n]
      \/ /\ Len(files'[n]) = Len(files[n]) + 1
         /\ SubSeq(files'[n], 1, Len(files[n])) = files[n]

\* C18: each of the three files holds exactly its header row until the first
\* job is submitted, and from then on is only appended to: in every state it
\* is its header followed by what was appended, and no step changes or
\* removes anything written before.
C18_HeaderThenAppends == []HeaderFirst /\ [][AppendOnly]_vars

\* rows of two jobs follow the header of the files' file, and a row follows
\* the header of the users' file
C18_Witness ==
  /\ Len(Rows("usuarios")) >= 1
  /\ \E k, l \in DOMAIN files["archivos"] :
       /\ 1 < k
       /\ k < l
       /\ files["archivos"][k].job # files["archivos"][l].job

(* ------------------------- the run comes to its end ------------------- *)
Authenticated == pc_main = "usuarios"
\* the summary has been printed with a count for each file, and every job
\* that was submitted has returned
Summarised ==
  /\ Finished
  /\ DOMAIN resumen = FileNames
  /\ \A n \in FileNames : resumen[n] = Registros(n)
  /\ \A j \in DOMAIN job : job[j].pc = "done"

\* C19: once authentication has succeeded, with every call returning, every
\* pagination ending and the threads scheduled fairly, every submitted job
\* returns and the final summary is printed with a record count for each of
\* the three files, whatever requests and appends failed on the way.
C19_RunEnds == Authenticated ~> Summarised

\* the summary was printed after a run in which requests or appends failed
\* and in which a user's job and a site's job returned
C19_Witness ==
  /\ Summarised
  /\ faults = MaxFaults
  /\ \E j \in DOMAIN job : job[j].kind = "user" /\ job[j].hit
  /\ \E j \in DOMAIN job : job[j].kind = "site"

(* ------------------- a request that raises on page k ------------------ *)
\* job j asks for a page after the first of a folder's children, or of its
\* site's drives: the items of the pages before are in hand
AtLaterPage(j) ==
  \/ Walking(j, "get") /\ Top(j).items # <<>>
  \/ At(j, "sdrives") /\ job[j].drives # <<>>

\* the request of job j for that page raises in this step
RaisesAtLaterPage(j) ==
  /\ AtLaterPage(j)
  /\ faults' = faults + 1
  /\ job'[j] # job[j]
  /\ job'[j].resp = "raise"

\* job j as another status on that page leaves it (lines 187-188, 312-313):
\* the loop is left with the items in hand, which are handled next
AfterStatus(j) ==
  IF At(j, "sdrives")
  THEN [job[j] EXCEPT !.pc = "drive", !.di = 1, !.hit = TRUE]
  ELSE [SetTop(j, [Top(j) EXCEPT !.ph = "loop"])
          EXCEPT !.hit = TRUE,
                 !.cut = @ \cup {<<Top(j).drive_id, Top(j).item_id>>}]

\* the enumeration of the users or of the sites, when a request fails by a
\* status or by an exception, keeps what it has read and goes on to the
\* next stage
EnumerationKeeps ==
  (pc_main \in {"usuarios", "sites"} /\ faults' = faults + 1) =>
    /\ usuarios' = usuarios
    /\ sites' = sites
    /\ pc_main' = IF pc_main = "usuarios" THEN "sites" ELSE "submit_users"

\* C20: a request that raises on page k of a paginated query stops the
\* pagination as another status does, and the items of pages 1..k-1 are kept
\* and handled as they are after another status on page k: for the users and
\* the sites, for the children of a folder in listar_archivos_recursivo and
\* for the drives of a site in procesar_site_paralelo.
C20_RaiseLikeStatus ==
  [][/\ EnumerationKeeps
     /\ \A j \in DOMAIN job :
          RaisesAtLaterPage(j) => job'[j] = [AfterStatus(j) EXCEPT !.resp = "raise"]]_vars

(* ---------------------- a drive named more than once ------------------ *)
\* no value occurs twice in the sequence s
Distinct(s) == \A k, l \in DOMAIN s : k # l => s[k] # s[l]
DriveIdsOf(rows) == [k \in DOMAIN rows |-> rows[k].drive_id]
IdsOf(drives) == [k \in DOMAIN drives |-> drives[k].id]

\* C21: the drives found for a site are deduplicated by id as those of a
\* user are: a site job never appends two rows with the same drive_id to the
\* sites' file and never traverses a drive twice, however often the listing
\* names the drive, and the search over the sites never stores an id twice.
C21_NoRepeatedSiteDrive ==
  /\ \A j \in DOMAIN job :
       job[j].kind = "site" =>
         /\ Distinct(DriveIdsOf(WholeRows("sites", j)))
         /\ Distinct(DriveIdsOf(job[j].walks))
  /\ Distinct(IdsOf(available_drives))

(* --------------------- personal and shared drives --------------------- *)
\* in drives, the default drive of user u is 'personal' and every other
\* drive is 'shared'
TaggedFor(u, drives) ==
  \A k \in DOMAIN drives :
    drives[k].type = IF drives[k].id = tenant.udef[u] THEN "personal" ELSE "shared"

\* C22: in the drives resolved for a user, by the enumerator and by the
\* explorer, the user's default drive is tagged 'personal' and every other
\* drive 'shared', whichever of the two requests succeeded or failed.
C22_DefaultIsPersonal ==
  /\ \A j \in DOMAIN job :
       (job[j].kind = "user" /\ job[j].pc = "drive") => TaggedFor(job[j].who, job[j].drives)
  /\ (ex.lookup = "found" /\ ex.pc \in {"select", "done"}) =>
       TaggedFor(tenant.users[1], available_drives)

(* ------------------------ cursors are followed ------------------------ *)
\* url is the '@odata.nextLink' of an answer (the first url of a query is 0,
\* an answer without a link gives NoUrl)
Cursor(url) == url > 0

\* the last request of the listing of frame f, made with its cursor, failed
FailedListing(j, f) == <<f.drive_id, f.item_id>> \in job[j].cut

\* C23: every '@odata.nextLink' that a successful answer carries is the
\* target of the query's next request: a job holds such a link only while
\* its pagination is about to request it, or after the request made with it
\* has failed; this for the listing of a folder's children, of a site's
\* drives and of a user's drives.
C23_CursorFollowed ==
  \A j \in DOMAIN job :
    /\ Cursor(job[j].url) =>
         \/ job[j].kind = "site" /\ job[j].pc = "sdrives"
         \/ job[j].kind = "site" /\ job[j].hit
    /\ \A k \in DOMAIN job[j].stack :
         Cursor(job[j].stack[k].url) =>
           \/ job[j].stack[k].ph = "get"
           \/ FailedListing(j, job[j].stack[k])

(* ------------------------ all drives of a user ------------------------ *)
\* C24: when both requests succeed, the drives resolved for a user, by the
\* enumerator and by the explorer, contain every drive of the user's drive
\* list, the drives that the service delivers after the first page included.
C24_AllDrives ==
  /\ \A j \in DOMAIN job :
       (/\ job[j].kind = "user"
        /\ job[j].pc = "drive"
        /\ tenant.udef[job[j].who] # 0
        /\ ~job[j].hit) =>
         Range(tenant.ulist[job[j].who]) \subseteq DriveIds(job[j].drives)
  /\ (/\ ex.lookup = "found"
      /\ ex.pc \in {"select", "done"}
      /\ tenant.udef[tenant.users[1]] # 0
      /\ faults = 0) =>
       Range(tenant.ulist[tenant.users[1]]) \subseteq DriveIds(available_drives)

(* ---------------------- a row before what is under it ----------------- *)
\* job j has appended the whole row of drive d to the users' file
DriveRowIn(j, d) ==
  \E k \in DOMAIN files["usuarios"] :
    /\ files["usuarios"][k].part = "tail"
    /\ files["usuarios"][k].job = j
    /\ files["usuarios"][k].row.drive_id = d

\* job j has appended the whole row of item c of drive d to the files' file
ItemRowIn(j, d, c) ==
  \E k \in DOMAIN files["archivos"] :
    /\ files["archivos"][k].part = "tail"
    /\ files["archivos"][k].job = j
    /\ files["archivos"][k].row.drive_id = d
    /\ files["archivos"][k].row.nodo = c

\* the row of a drive is whole in the users' file before the drive is
\* traversed and before any record of it is written, and the row of a folder
\* is whole in the files' file before the folder is entered or listed
RowComesFirst ==
  \A j \in DOMAIN job :
    /\ job[j].kind = "user" =>
         /\ \A k \in DOMAIN job[j].walks : DriveRowIn(j, job[j].walks[k].drive_id)
         /\ \A k \in 2..Len(files["archivos"]) :
              files["archivos"][k].job = j =>
                DriveRowIn(j, files["archivos"][k].row.drive_id)
    /\ \A k \in DOMAIN job[j].stack :
         job[j].stack[k].item_id # 0 =>
           ItemRowIn(j, job[j].stack[k].drive_id, job[j].stack[k].item_id)
    /\ \A p \in listed :
         (p[2] # 0 /\ p[1] \in DriveIds(job[j].drives)) => ItemRowIn(j, p[1], p[2])

\* an append of the traversal that raises leaves the activation in its loop
\* at the next sibling, with nothing entered
FailedAppendSkips ==
  \A j \in DOMAIN job :
    (Walking(j, "open") /\ job'[j].lost = job[j].lost + 1) =>
      /\ files' = files
      /\ job'[j].pc = "walk"
      /\ Len(job'[j].stack) = Len(job[j].stack)
      /\ Last(job'[j].stack) = [Top(j) EXCEPT !.ph = "loop", !.i = @ + 1]

\* C25: a user job appends the users' row of a drive before any record of
\* that drive's files and traverses the drive only if the row was appended;
\* a traversal goes into a folder only after the folder's own record was
\* appended, and an append that fails skips that folder's subtree and goes
\* on with the folder's later siblings.
C25_RowBeforeContents == []RowComesFirst /\ [][FailedAppendSkips]_vars

\* a job is over in which the record of a folder at the root of a drive
\* could not be appended: the folder was never listed, and a later sibling
\* has its record
C25_Witness ==
  \E j \in DOMAIN job :
    /\ job[j].pc = "done"
    /\ job[j].lost = 1
    /\ \E d \in DriveIds(job[j].drives) :
         \E c, e \in DOMAIN tenant.tree[d].par :
           /\ tenant.tree[d].fol[c]
           /\ tenant.tree[d].par[c] = 0
           /\ tenant.tree[d].par[e] = 0
           /\ c < e
           /\ max_depth > 0
           /\ DriveRowIn(j, d)
           /\ ~ItemRowIn(j, d, c)
           /\ <<d, c>> \notin listed
           /\ ItemRowIn(j, d, e)

(* ------------------------------ the two locks ------------------------- *)
\* job j is about to send a request, or waits for its answer
Requesting(j) ==
  \/ job[j].pc \in {"default", "list", "sdrives"}
  \/ Walking(j, "get")
\* job j is at a with csv_lock, at the with print_lock of safe_print
WaitsCsv(j) ==
  \/ At(j, "drive") /\ job[j].di <= Len(job[j].drives)
  \/ Walking(j, "loop") /\ Top(j).i <= Len(Top(j).items)
WaitsPrint(j) == At(j, "print")
\* job j cannot go on: the lock it is asking for is held
Blocked(j) ==
  \/ WaitsCsv(j) /\ csv_lock # 0
  \/ WaitsPrint(j) /\ print_lock # 0

\* C26: no worker holds csv_lock and print_lock together; a worker that
\* holds one of them neither sends a request nor waits for the other lock;
\* and whenever jobs are running, one of them is not blocked on a lock.
C26_NoDeadlock ==
  /\ \A j \in DOMAIN job :
       /\ ~(csv_lock = j /\ print_lock = j)
       /\ (csv_lock = j \/ print_lock = j) =>
            ~Requesting(j) /\ ~WaitsCsv(j) /\ ~WaitsPrint(j)
  /\ Running # {} => \E j \in Running : ~Blocked(j)

\* one worker is inside with csv_lock, writing a record of the traversal,
\* while another worker is blocked at its own with csv_lock
C26_Witness ==
  \E j, k \in DOMAIN job :
    /\ j # k
    /\ csv_lock = j
    /\ Walking(j, "tail")
    /\ Blocked(k)
    /\ WaitsCsv(k)

(* --------------------------- users, then sites ------------------------ *)
KindOf(c) == job[c.job].kind
UsersOver == \A j \in DOMAIN job : job[j].kind = "user" => job[j].pc = "done"

\* C27: the two pools never overlap: no site job leaves the queue before
\* every user job has returned, so the users' file has all its rows before
\* the sites' file gets its first, and in the files' file every record of a
\* user job comes before every record of a site job.
C27_UsersThenSites ==
  /\ (\E j \in DOMAIN job : job[j].kind = "site" /\ job[j].pc # "pending") => UsersOver
  /\ Len(files["sites"]) > 1 => UsersOver
  /\ \A k, l \in 2..Len(files["archivos"]) :
       (KindOf(files["archivos"][k]) = "user" /\ KindOf(files["archivos"][l]) = "site")
         => k < l

\* a site job is running after user jobs that wrote records of files, and
\* its own records follow theirs
C27_Witness ==
  /\ \E j \in DOMAIN job : job[j].kind = "site" /\ job[j].pc = "walk"
  /\ Len(files["usuarios"]) > 1
  /\ Len(files["sites"]) > 1
  /\ \E k, l \in 2..Len(files["archivos"]) :
       KindOf(files["archivos"][k]) = "user" /\ KindOf(files["archivos"][l]) = "site"

(* ------------------------- the explorer's folder ---------------------- *)
\* the item reached from item `from` of tree t by the names of path, one
\* folder after the other; NoUrl when a name is not a folder there
RECURSIVE Follow(_, _, _)
Follow(t, path, from) ==
  IF path = <<>> THEN from
  ELSE IF Head(path) \in DOMAIN t.par /\ t.par[Head(path)] = from /\ t.fol[Head(path)]
       THEN Follow(t, Tail(path), Head(path))
       ELSE NoUrl

\* C28: at the prompt, after any commands cd <name>, cd .., cd / on a
\* selected drive, current_item_id is None exactly when current_path is '/'
\* and is otherwise the folder reached by following current_path from the
\* root of the drive, so that dir lists the folder current_path shows.
C28_PathNamesFolder ==
  (ExAt("prompt") /\ drive_id # 0) =>
    /\ current_item_id = 0 <=> current_path = <<>>
    /\ current_item_id = Follow(tenant.tree[drive_id], current_path, 0)

\* the three attributes a command may not touch
Place == <<current_path, current_item_id, drive_id>>
\* the name is the name of a folder in the folder that dir lists
FolderHere(name) ==
  /\ name \in DOMAIN tenant.tree[drive_id].par
  /\ tenant.tree[drive_id].par[name] = current_item_id
  /\ tenant.tree[drive_id].fol[name]

\* the step belongs to a command that has to leave everything in place: a
\* cd without a drive, cd .. at '/', cd to a name that is not a folder of the
\* folder listed, and dir, pwd, help, download at any point of their run
LeavesInPlace ==
  \/ ex'.cmd.kind \in {"dir", "pwd", "help", "download"}
  \/ ex'.cmd.kind \in {"cd", "cd_up", "cd_root"} /\ drive_id = 0
  \/ ex'.cmd.kind = "cd_up" /\ ex'.count # ex.count /\ current_path = <<>>
  \/ ex'.cmd.kind = "cd" /\ drive_id # 0 /\ ~FolderHere(ex'.cmd.arg)

\* C29: cd to a name that does not exist in the current folder or that names
\* a file, cd with no drive selected and cd .. at the root leave
\* current_path, current_item_id and drive_id as they are; dir, pwd, help
\* and download never change any of the three.
C29_Frame == [][LeavesInPlace => Place' = Place]_vars

\* below the root, cd to the name of a file of the current folder has come
\* back to the prompt
C29_Witness ==
  /\ ExAt("prompt")
  /\ ex.cmd.kind = "cd"
  /\ drive_id # 0
  /\ current_item_id # 0
  /\ ex.cmd.arg \in DOMAIN tenant.tree[drive_id].par
  /\ tenant.tree[drive_id].par[ex.cmd.arg] = current_item_id
  /\ ~tenant.tree[drive_id].fol[ex.cmd.arg]
  /\ current_path = <<current_item_id>>

=============================================================================
